---- MODULE Spec2Model ----
(***************************************************************************)
(* A model of the archive-to-PDF service: the two POST handlers            *)
(* (pdf-render with ARCHIVE_CATALOG, generate-pdf with ARCHIVE_SERVICES),  *)
(* the renderer (renderArchivePdf / generatePdf) and the launch sequencer  *)
(* (launchBrowser).                                                        *)
(*                                                                         *)
(* Text that the code only carries around (error messages, strategy        *)
(* labels, catalog keys) is a TLA+ string.  Text that the code computes    *)
(* on character by character (the request URL, the archive URL) is a       *)
(* sequence of one-character strings, so that new URL(...).toString() and  *)
(* encodeURIComponent are modelled by what they do to each character.      *)
(***************************************************************************)
EXTENDS Integers, Sequences, FiniteSets, TLC

(***************************************************************************)
(* Characters                                                              *)
(***************************************************************************)
LowerLetters ==
    <<"a","b","c","d","e","f","g","h","i","j","k","l","m",
      "n","o","p","q","r","s","t","u","v","w","x","y","z">>

UpperLetters ==
    <<"A","B","C","D","E","F","G","H","I","J","K","L","M",
      "N","O","P","Q","R","S","T","U","V","W","X","Y","Z">>

Digits == {"0","1","2","3","4","5","6","7","8","9"}

Range(s) == {s[i] : i \in DOMAIN s}

IsAlpha(c) == c \in Range(LowerLetters) \cup Range(UpperLetters)

\* String.prototype.toLowerCase on one ASCII character, as the URL parser
\* applies it to the scheme and the host.
ToLowerChar(c) ==
    IF c \in Range(UpperLetters)
    THEN LowerLetters[CHOOSE i \in DOMAIN UpperLetters : UpperLetters[i] = c]
    ELSE c

ToLower(s) == [i \in DOMAIN s |-> ToLowerChar(s[i])]

\* The UTF-8 bytes of a character, as upper-case hex pairs, for the
\* characters that are not letters or digits and occur in the inputs.
Utf8Hex(c) ==
    CASE c = " "  -> << <<"2","0">> >>
      [] c = "#"  -> << <<"2","3">> >>
      [] c = "%"  -> << <<"2","5">> >>
      [] c = "/"  -> << <<"2","F">> >>
      [] c = ":"  -> << <<"3","A">> >>
      [] c = "?"  -> << <<"3","F">> >>
      [] c = "é"  -> << <<"C","3">>, <<"A","9">> >>

RECURSIVE PercentBytes(_)
PercentBytes(bytes) ==
    IF bytes = <<>> THEN <<>>
    ELSE <<"%">> \o Head(bytes) \o PercentBytes(Tail(bytes))

PercentEncodeChar(c) == PercentBytes(Utf8Hex(c))

\* The characters encodeURIComponent leaves alone: A-Z a-z 0-9 - _ . ! ~ * ' ( )
UriUnreserved ==
    Range(LowerLetters) \cup Range(UpperLetters) \cup Digits
        \cup {"-", "_", ".", "!", "~", "*", "'", "(", ")"}

\* A plausible slip: encodeURI, which also leaves ; / ? : @ & = + $ , # alone.
RECURSIVE encodeURI(_)
encodeURI(s) ==
    IF s = <<>> THEN <<>>
    ELSE (IF Head(s) \in UriUnreserved
                \cup {";", "/", "?", ":", "@", "&", "=", "+", "$", ",", "#"}
          THEN <<Head(s)>>
          ELSE PercentEncodeChar(Head(s))) \o encodeURI(Tail(s))

RECURSIVE encodeURIComponent(_)
encodeURIComponent(s) ==
    IF s = <<>> THEN <<>>
    ELSE (IF Head(s) \in UriUnreserved
          THEN <<Head(s)>>
          ELSE PercentEncodeChar(Head(s))) \o encodeURIComponent(Tail(s))

(***************************************************************************)
(* new URL(url), .protocol and .toString(): the URL Standard's basic       *)
(* parser with no base URL, for inputs that carry no credentials, port,    *)
(* query or fragment and no dot segments.                                  *)
(***************************************************************************)
RECURSIVE TrimLeft(_)
TrimLeft(s) ==
    IF s # <<>> /\ Head(s) = " " THEN TrimLeft(Tail(s)) ELSE s

RECURSIVE TrimRight(_)
TrimRight(s) ==
    IF s # <<>> /\ s[Len(s)] = " " THEN TrimRight(SubSeq(s, 1, Len(s) - 1)) ELSE s

\* Leading and trailing spaces are removed before parsing.
Trim(s) == TrimRight(TrimLeft(s))

SchemeChars ==
    Range(LowerLetters) \cup Range(UpperLetters) \cup Digits \cup {"+", "-", "."}

\* The position of the ":" that ends the scheme, 0 when the input has no
\* scheme (and so, without a base URL, is not a URL).
SchemeEnd(s) ==
    LET colons == {i \in DOMAIN s : s[i] = ":"}
        first  == CHOOSE i \in colons : \A j \in colons : i <= j
    IN  IF colons = {} THEN 0
        ELSE IF first >= 2 /\ IsAlpha(s[1])
                  /\ \A j \in 1..(first - 1) : s[j] \in SchemeChars
             THEN first
             ELSE 0

SpecialSchemes ==
    { <<"h","t","t","p">>, <<"h","t","t","p","s">>, <<"f","t","p">>,
      <<"w","s">>, <<"w","s","s">> }

RECURSIVE SkipSlashes(_)
SkipSlashes(s) ==
    IF s # <<>> /\ Head(s) \in {"/", "\\"} THEN SkipSlashes(Tail(s)) ELSE s

\* Where the host ends: the first "/", "\", "?" or "#", or the end of input.
HostEnd(s) ==
    LET stops == {i \in DOMAIN s : s[i] \in {"/", "\\", "?", "#"}}
    IN  IF stops = {} THEN Len(s) + 1
        ELSE CHOOSE i \in stops : \A j \in stops : i <= j

\* Code points a host may not contain.
ForbiddenHostChars ==
    {" ", "#", "/", ":", "<", ">", "?", "@", "[", "\\", "]", "^", "|", "%"}

\* The path percent-encode set, for the characters of the inputs: a space
\* and anything outside ASCII are escaped, a backslash becomes a slash.
RECURSIVE PathEncode(_)
PathEncode(s) ==
    IF s = <<>> THEN <<>>
    ELSE (CASE Head(s) = "\\"         -> <<"/">>
            [] Head(s) \in {" ", "é"} -> PercentEncodeChar(Head(s))
            [] OTHER                  -> <<Head(s)>>) \o PathEncode(Tail(s))

InvalidUrl == [ok |-> FALSE, protocol |-> <<>>, host |-> <<>>, pathname |-> <<>>]

\* F(v), with v computed once, before F is applied.
With(v, F(_)) == CHOOSE y \in { F(x) : x \in {v} } : TRUE

\* The parser's states in turn: scheme, then for a special scheme the
\* slashes, the host and the path; each stage works on what the one before
\* left.
ParseUrl(input) ==
    With(Trim(input), LAMBDA s :
    With(SchemeEnd(s), LAMBDA e :
        IF e = 0 THEN InvalidUrl
        ELSE
    With(ToLower(SubSeq(s, 1, e - 1)), LAMBDA scheme :
    With(SubSeq(s, e + 1, Len(s)), LAMBDA rest :
        IF scheme \notin SpecialSchemes
        THEN [ok |-> TRUE, protocol |-> scheme \o <<":">>, host |-> <<>>,
              pathname |-> rest]
        ELSE
    With(SkipSlashes(rest), LAMBDA auth :
    With(HostEnd(auth), LAMBDA h :
    With(ToLower(SubSeq(auth, 1, h - 1)), LAMBDA host :
    With(SubSeq(auth, h, Len(auth)), LAMBDA path :
        IF host = <<>> \/ Range(host) \cap ForbiddenHostChars # {}
        THEN InvalidUrl
        ELSE [ok |-> TRUE, protocol |-> scheme \o <<":">>, host |-> host,
              pathname |-> IF path = <<>> THEN <<"/">> ELSE PathEncode(path)]
    ))))))))

\* parsedUrl.toString()
UrlToString(u) ==
    IF u.host = <<>> THEN u.protocol \o u.pathname
    ELSE u.protocol \o <<"/", "/">> \o u.host \o u.pathname

\* A plausible slip: hand the request URL on as it was typed.
NormalizeUrlVerbatim(input) == input

\* normalizedUrl = new URL(url).toString()
NormalizeUrl(input) == UrlToString(ParseUrl(input))

HttpProtocols == { <<"h","t","t","p",":">>, <<"h","t","t","p","s",":">> }

(***************************************************************************)
(* The provider catalogs                                                   *)
(***************************************************************************)
ArchivePhPrefix ==
    <<"h","t","t","p","s",":","/","/","a","r","c","h","i","v","e",".","p","h","/">>

WaybackPrefix ==
    <<"h","t","t","p","s",":","/","/","w","e","b",".","a","r","c","h","i","v","e",
      ".","o","r","g","/","w","e","b","/","*","/">>

TwelveFtPrefix ==
    <<"h","t","t","p","s",":","/","/","1","2","f","t",".","i","o","/">>

\* Each entry's buildUrl is `${prefix}${encodeURIComponent(target)}`; the
\* entry records the prefix, BuildUrl applies the template.
ARCHIVE_CATALOG ==
    ( "archive-today"    :> [label |-> "archive.ph",      prefix |-> ArchivePhPrefix] )
 @@ ( "internet-archive" :> [label |-> "Wayback Machine", prefix |-> WaybackPrefix] )
 @@ ( "twelve-foot"      :> [label |-> "12ft.io",         prefix |-> TwelveFtPrefix] )

\* A plausible slip: one copy of the catalog is edited and the other is not.
ArchiveServicesLatestSnapshot ==
    ( "archive-ph" :> [label |-> "archive.ph",      prefix |-> ArchivePhPrefix] )
 @@ ( "wayback"    :> [label |-> "Wayback Machine",
                       prefix |-> SubSeq(WaybackPrefix, 1, 28) \o <<"2", "/">>] )
 @@ ( "twelve-ft"  :> [label |-> "12ft.io",         prefix |-> TwelveFtPrefix] )

ARCHIVE_SERVICES ==
    ( "archive-ph" :> [label |-> "archive.ph",      prefix |-> ArchivePhPrefix] )
 @@ ( "wayback"    :> [label |-> "Wayback Machine", prefix |-> WaybackPrefix] )
 @@ ( "twelve-ft"  :> [label |-> "12ft.io",         prefix |-> TwelveFtPrefix] )

\* A plausible slip: the template applied with encodeURI.
BuildUrlEncodeURI(entry, target) == entry.prefix \o encodeURI(target)

BuildUrl(entry, target) == entry.prefix \o encodeURIComponent(target)

\* The property names every object literal inherits from Object.prototype.
ObjectPrototypeProps ==
    { "constructor", "toString", "toLocaleString", "valueOf", "hasOwnProperty",
      "isPrototypeOf", "propertyIsEnumerable", "__proto__",
      "__defineGetter__", "__defineSetter__", "__lookupGetter__", "__lookupSetter__" }

\* `name in object`: own properties and inherited ones alike.
HasProperty(object, name) ==
    name \in DOMAIN object \/ name \in ObjectPrototypeProps

\* object[name]: a catalog entry for an own key; for an inherited name a
\* member of Object.prototype, which has no buildUrl.
GetProperty(object, name) ==
    IF name \in DOMAIN object
    THEN [hasBuildUrl |-> TRUE, label |-> object[name].label,
          prefix |-> object[name].prefix]
    ELSE [hasBuildUrl |-> FALSE, label |-> "", prefix |-> <<>>]

(***************************************************************************)
(* Values of a JSON body.  A url value keeps its characters, a provider or *)
(* service value keeps its text.                                           *)
(***************************************************************************)
UrlString(chars) == [type |-> "string", chars |-> chars]
UrlNumber(digits) == [type |-> "number", chars |-> digits]
UrlUndefined == [type |-> "undefined", chars |-> <<>>]

KeyString(text) == [type |-> "string", text |-> text]
KeyNumber(text) == [type |-> "number", text |-> text]
KeyUndefined == [type |-> "undefined", text |-> ""]

\* JavaScript truthiness of a url value.
Truthy(v) ==
    CASE v.type = "string" -> v.chars # <<>>
      [] v.type = "number" -> v.chars # <<"0">>
      [] OTHER             -> FALSE

\* typeof value === 'string' && value in ARCHIVE_CATALOG
isArchiveProvider(value) ==
    value.type = "string" /\ HasProperty(ARCHIVE_CATALOG, value.text)

\* typeof value === 'string' && value in ARCHIVE_SERVICES
isArchiveService(value) ==
    value.type = "string" /\ HasProperty(ARCHIVE_SERVICES, value.text)

(***************************************************************************)
(* Launch strategies and thrown values                                     *)
(***************************************************************************)
\* A plausible slip: the list with its first two entries exchanged.
StrategiesShellFirst ==
    << [label |-> "shell-headless",       headless |-> "shell"],
       [label |-> "default-new-headless", headless |-> "new"],
       [label |-> "legacy-headless",      headless |-> "true"] >>

STRATEGIES ==
    << [label |-> "default-new-headless", headless |-> "new"],
       [label |-> "shell-headless",       headless |-> "shell"],
       [label |-> "legacy-headless",      headless |-> "true"] >>

\* A thrown value: an Error with its message, or (isError = FALSE) some
\* other value; `string` is what String(...) makes of it.
Error(message) ==
    [isError |-> TRUE, message |-> message, string |-> "Error: " \o message]
NonError(text) == [isError |-> FALSE, message |-> "", string |-> text]
NoError == [isError |-> FALSE, message |-> "", string |-> ""]

\* What puppeteer.launch may reject with.
LaunchFailures ==
    { Error("Failed to launch the browser process!"),
      NonError("spawn chrome ENOENT") }

\* What the page operations reject with (Errors, as Puppeteer throws).
NewPageFailures == { Error("Protocol error (Target.createTarget): Target closed") }
GotoFailures ==
    { Error("Navigation timeout of 45000 ms exceeded"),
      Error("net::ERR_NAME_NOT_RESOLVED") }
DelayFailures == { Error("page.waitForTimeout is not a function") }
PdfFailures == { Error("Protocol error (Page.printToPDF): Printing failed") }

RECURSIVE Join(_, _)
\* errors.join(sep)
Join(parts, sep) ==
    IF parts = <<>> THEN ""
    ELSE IF Len(parts) = 1 THEN parts[1]
    ELSE parts[1] \o sep \o Join(Tail(parts), sep)

\* error instanceof Error ? error.message : String(error)
LaunchErrorMessage(e) == IF e.isError THEN e.message ELSE e.string

\* A plausible slip: the entry without the strategy's label.
LaunchErrorEntryNoLabel(label, e) == LaunchErrorMessage(e)

\* `${label}: ${message}`
LaunchErrorEntry(label, e) == label \o ": " \o LaunchErrorMessage(e)

LaunchExhausted(errors) ==
    Error("Failed to launch Chromium with Puppeteer. Tried strategies: "
            \o Join(errors, "; "))

(***************************************************************************)
(* State                                                                   *)
(***************************************************************************)
MaxRequests == 2
Requests == 1..MaxRequests

Handlers == {"pdf-render", "generate-pdf"}

VARIABLES
    req,        \* req[r]: the state of request r (see IdleRequest)
    arrivals,   \* the requests that have not arrived yet
    built,      \* the direct calls of a catalog entry's buildUrl (see NoCalls)
    env,        \* process.env.PUPPETEER_EXECUTABLE_PATH
    mon,        \* one PuppeteerErrorMonitor and the calls running on it
    form        \* one mounted PdfGeneratorForm (see NewForm)

vars == <<req, arrivals, built, env, mon, form>>

NoBrowser == [owner |-> 0, attempt |-> 0]
NoBody == [kind |-> "none", url |-> UrlUndefined,
           provider |-> KeyUndefined, service |-> KeyUndefined]
NoResponse == [status |-> 0, message |-> "", archiveUrl |-> <<>>,
               strategy |-> "", pdf |-> FALSE]

\* The options object of a puppeteer.launch call; NoOptions for other calls.
NoOptions == [timeout |-> 0, headless |-> "", executablePath |-> ""]

\* One call the request made on the outside world.
Call(op, strategy, url, browser) ==
    [op |-> op, strategy |-> strategy, url |-> url, browser |-> browser,
     options |-> NoOptions]

\* The values of PUPPETEER_EXECUTABLE_PATH: unset (read as undefined) or a path.
EnvUnset == "undefined"
EnvValues == {EnvUnset, "/usr/bin/chromium-browser"}

IdleRequest ==
    [ pc            |-> "idle",     \* where the handler is suspended
      handler       |-> "none",
      body          |-> NoBody,
      normalizedUrl |-> <<>>,
      archiveUrl    |-> <<>>,
      attempt       |-> 0,          \* index into STRATEGIES of the launch in flight
      errors        |-> <<>>,       \* launchBrowser's errors array
      browser       |-> NoBrowser,
      strategy      |-> "",
      rejections    |-> <<>>,       \* what each failed launch rejected with
      thrown        |-> NoError,    \* the exception the renderer throws
      failed        |-> FALSE,      \* whether the renderer threw
      closeRejected |-> FALSE,      \* whether browser.close() rejected
      log           |-> <<>>,       \* the calls made, in order
      trace         |-> <<>>,       \* the calls and how each settled, in order
      overlapped    |-> FALSE,      \* whether it arrived while another was in flight
      response      |-> NoResponse ]

(***************************************************************************)
(* Inputs                                                                  *)
(***************************************************************************)
UrlExample == <<"h","t","t","p","s",":","/","/","e","x","a","m","p","l","e",".","c","o","m">>
UrlSpace   == <<"h","t","t","p","s",":","/","/","a",".","c","o","m","/","b"," ","c">>
UrlUpper   == <<"H","t","t","p",":","/","/","A",".","c","o","m","/","é">>
UrlFtp     == <<"f","t","p",":","/","/","a",".","c","o","m","/","x">>
UrlMailto  == <<"m","a","i","l","t","o",":","a">>
UrlNoScheme == <<"a",".","c","o","m">>

UrlValues ==
    { UrlString(UrlExample), UrlString(UrlSpace), UrlString(UrlUpper),
      UrlString(UrlFtp), UrlString(UrlMailto), UrlString(UrlNoScheme),
      UrlString(<<>>), UrlNumber(<<"4","2">>), UrlUndefined }

KeyValues ==
    { KeyString("archive-today"), KeyString("internet-archive"), KeyString("twelve-foot"),
      KeyString("archive-ph"), KeyString("wayback"), KeyString("twelve-ft"),
      KeyString("constructor"), KeyString("toString"), KeyString("bogus"),
      KeyString(""), KeyNumber("7"), KeyUndefined }

\* The bodies a client may send: text that is not JSON, the JSON value null,
\* or an object carrying url and one of provider / service.
Bodies ==
    { [NoBody EXCEPT !.kind = "malformed"], [NoBody EXCEPT !.kind = "null"] }
    \cup { [kind |-> "object", url |-> u, provider |-> k, service |-> KeyUndefined]
            : u \in UrlValues, k \in KeyValues }
    \cup { [kind |-> "object", url |-> u, provider |-> KeyUndefined, service |-> k]
            : u \in UrlValues, k \in KeyValues }

(***************************************************************************)
(* The POST handler: validation                                            *)
(***************************************************************************)
Reply(status, message) ==
    [status |-> status, message |-> message, archiveUrl |-> <<>>,
     strategy |-> "", pdf |-> FALSE]

\* A plausible slip: the catch answers with the fixed text only.
HandlerCatchGeneric(e) ==
    Reply(500, "An unexpected error occurred while generating the PDF.")

\* The handler's outer catch: status 500 with the error's message.
HandlerCatch(e) ==
    Reply(500, IF e.isError THEN e.message
               ELSE "An unexpected error occurred while generating the PDF.")

\* const { url, provider } = await request.json(): what it throws, if anything.
ReadBodyFailure(body) ==
    CASE body.kind = "malformed" -> Error("Unexpected end of JSON input")
      [] body.kind = "null" ->
            Error("Cannot destructure property 'url' of '(intermediate value)' as it is null.")
      [] OTHER -> NoError

\* The field the handler reads the catalog key from.
KeyOf(handler, body) ==
    IF handler = "pdf-render" THEN body.provider ELSE body.service

KeyAccepted(handler, value) ==
    IF handler = "pdf-render" THEN isArchiveProvider(value) ELSE isArchiveService(value)

KeyRequiredMessage(handler) ==
    IF handler = "pdf-render" THEN "An archive provider is required."
    ELSE "An archive service is required."

CatalogOf(handler) ==
    IF handler = "pdf-render" THEN ARCHIVE_CATALOG ELSE ARCHIVE_SERVICES

\* A plausible slip: the scheme of a parsed URL is not looked at.
ValidateAnyScheme(handler, body) ==
    LET url == body.url
        parsed == ParseUrl(url.chars)
    IN  IF ~Truthy(url) \/ url.type # "string"
        THEN Reply(400, "A valid URL is required.")
        ELSE IF ~KeyAccepted(handler, KeyOf(handler, body))
        THEN Reply(400, KeyRequiredMessage(handler))
        ELSE IF ~parsed.ok
        THEN Reply(400, "Invalid URL")
        ELSE Reply(0, "")

\* The three checks, in the handler's order.  status 0: all passed.
Validate(handler, body) ==
    LET url == body.url
        parsed == ParseUrl(url.chars)
    IN  IF ~Truthy(url) \/ url.type # "string"
        THEN Reply(400, "A valid URL is required.")
        ELSE IF ~KeyAccepted(handler, KeyOf(handler, body))
        THEN Reply(400, KeyRequiredMessage(handler))
        ELSE IF ~parsed.ok
        THEN Reply(400, "Invalid URL")
        ELSE IF parsed.protocol \notin HttpProtocols
        THEN Reply(400, "Only HTTP(S) URLs are supported.")
        ELSE Reply(0, "")

(***************************************************************************)
(* Steps of one request, as functions of its record                        *)
(***************************************************************************)
Logged(rq, call) ==
    [rq EXCEPT !.log = Append(@, call),
               !.trace = Append(@, [event |-> "call", op |-> call.op])]

\* The awaited promise (the one rq.pc names) resolves or rejects.
Settle(rq, ok) ==
    [rq EXCEPT !.trace =
        Append(@, [event |-> IF ok THEN "resolved" ELSE "rejected", op |-> rq.pc])]

Respond(rq, response) ==
    [rq EXCEPT !.pc = "done", !.response = response,
               !.trace = Append(@, [event |-> "respond", op |-> "handler"])]

\* A plausible slip: the bundled browser is always launched.
LaunchOptionsBundled(i) ==
    [timeout |-> 45000, headless |-> STRATEGIES[i].headless, executablePath |-> EnvUnset]

\* {timeout: 45000, ...options, executablePath: process.env.PUPPETEER_EXECUTABLE_PATH}:
\* a later property wins over an earlier one of the same name.
LaunchOptions(i) ==
    [executablePath |-> env]
        @@ [headless |-> STRATEGIES[i].headless]
        @@ [timeout |-> 45000, headless |-> "", executablePath |-> ""]

\* puppeteer.launch({timeout, ...options, executablePath}) for strategy i.
LaunchCall(rq, i) ==
    Logged([rq EXCEPT !.pc = "launch", !.attempt = i],
           [Call("launch", STRATEGIES[i].label, <<>>, NoBrowser)
                EXCEPT !.options = LaunchOptions(i)])

\* A plausible slip: the source-URL header carries the target URL.
SuccessResponseTargetUrl(rq) ==
    [status |-> 200, message |-> "", archiveUrl |-> rq.normalizedUrl,
     strategy |-> rq.strategy, pdf |-> TRUE]

\* new NextResponse(pdf, {headers}): the PDF with the two diagnostic headers.
SuccessResponse(rq) ==
    [status |-> 200, message |-> "", archiveUrl |-> rq.archiveUrl,
     strategy |-> rq.strategy, pdf |-> TRUE]

\* A plausible slip: the catch builds its NextResponse without returning
\* it, so that the handler ends with no response of its own.
RendererThrowsNoReturn(rq, e) ==
    [rq EXCEPT !.failed = TRUE, !.thrown = e, !.pc = "returned"]

\* The renderer throws e to the handler, whose catch answers.
RendererThrows(rq, e) ==
    Respond([rq EXCEPT !.failed = TRUE, !.thrown = e], HandlerCatch(e))

\* A plausible slip: browser.close() at the end of the try block, with no
\* finally, so that an exception skips it.
TryThrowsNoClose(rq, e) == RendererThrows(rq, e)

\* A plausible slip: browser.close() is not awaited, so the renderer goes
\* on at once and the handler answers while the close is still pending.
FinallyNoAwait(rq) ==
    LET closing == Logged(rq, Call("close", "", <<>>, rq.browser))
    IN  IF rq.failed
        THEN RendererThrows(closing, rq.thrown)
        ELSE Respond(closing, SuccessResponse(closing))

\* finally { await browser.close()... }: the close call is made.
Finally(rq) ==
    Logged([rq EXCEPT !.pc = "close"], Call("close", "", <<>>, rq.browser))

\* The try block throws e.
TryThrows(rq, e) == Finally([rq EXCEPT !.failed = TRUE, !.thrown = e])

\* The TypeError of calling a buildUrl that is undefined.
BuildUrlMissing(handler) ==
    IF handler = "pdf-render"
    THEN Error("ARCHIVE_CATALOG[provider].buildUrl is not a function")
    ELSE Error("ARCHIVE_SERVICES[archiveService].buildUrl is not a function")

\* A plausible slip: the strategies raced (Promise.any over STRATEGIES.map)
\* instead of tried in turn, so that all the launches start together.
InvokeRendererRace(rq, normalizedUrl, key) ==
    LET entry == GetProperty(CatalogOf(rq.handler), key)
        called == Logged([rq EXCEPT !.normalizedUrl = normalizedUrl],
                         Call("render", key, normalizedUrl, NoBrowser))
        ready == [called EXCEPT !.archiveUrl = BuildUrl(entry, normalizedUrl)]
    IN  IF ~entry.hasBuildUrl
        THEN RendererThrows(called, BuildUrlMissing(rq.handler))
        ELSE [LaunchCall(LaunchCall(LaunchCall(ready, 3), 2), 1) EXCEPT !.attempt = 1]

\* The handler invokes the renderer: the archive URL is built, then the
\* first launch is attempted.  A catalog member without buildUrl throws.
InvokeRenderer(rq, normalizedUrl, key) ==
    LET entry == GetProperty(CatalogOf(rq.handler), key)
        called == Logged([rq EXCEPT !.normalizedUrl = normalizedUrl],
                         Call("render", key, normalizedUrl, NoBrowser))
    IN  IF ~entry.hasBuildUrl
        THEN RendererThrows(called, BuildUrlMissing(rq.handler))
        ELSE LaunchCall([called EXCEPT !.archiveUrl = BuildUrl(entry, normalizedUrl)], 1)

\* built.input is the string handed to buildUrl, built.results the calls
\* made on it: which catalog, which entry, and what came back.
NoCalls == [input |-> <<>>, results |-> <<>>]

(***************************************************************************)
(* PuppeteerErrorMonitor: construction                                     *)
(***************************************************************************)
MaxTicks == 3
MaxErrors == 1
MaxRestartsGiven == 1

Ticks == 1..MaxTicks
Errors == 1..MaxErrors

\* A property of the caller's options object: given with a value, or not
\* there at all.
Given(value) == [given |-> TRUE, value |-> value]
AbsentNumber == [given |-> FALSE, value |-> 0]
AbsentFlag == [given |-> FALSE, value |-> FALSE]

NoOptionsGiven == [maxRestarts |-> AbsentNumber, enableAutoRecovery |-> AbsentFlag]

\* The options objects a caller may pass to the constructor.
OptionsGiven ==
    [maxRestarts : {AbsentNumber} \cup { Given(n) : n \in 0..MaxRestartsGiven },
     enableAutoRecovery : {AbsentFlag, Given(TRUE), Given(FALSE)}]

\* {maxRestarts: options.maxRestarts || 5,
\*  enableAutoRecovery: options.enableAutoRecovery !== false, ...options}:
\* the defaults are computed first and every property the caller gave is
\* then copied over them by the spread.
MergeOptions(options) ==
    LET maxRestarts ==
            IF ~options.maxRestarts.given \/ options.maxRestarts.value = 0
            THEN 5 ELSE options.maxRestarts.value
        enableAutoRecovery ==
            ~(options.enableAutoRecovery.given /\ ~options.enableAutoRecovery.value)
    IN  [maxRestarts |-> IF options.maxRestarts.given
                         THEN options.maxRestarts.value ELSE maxRestarts,
         enableAutoRecovery |-> IF options.enableAutoRecovery.given
                                THEN options.enableAutoRecovery.value
                                ELSE enableAutoRecovery]

\* One run of the interval callback (tick) or of handleError (errs).
IdleTick == [pc |-> "idle", healthy |-> "none", sawHealthy |-> FALSE,
             recovery |-> "none", attempt |-> 0, emitted |-> <<>>, calls |-> <<>>]
NoResult == [canRecover |-> FALSE, action |-> "none"]
IdleError == [pc |-> "idle", error |-> "", type |-> "", handlersRun |-> 0,
              result |-> NoResult, emitted |-> <<>>]

\* new PuppeteerErrorMonitor(options)
NewMonitor(options) ==
    [ options          |-> MergeOptions(options),
      browserInstance  |-> "null",
      restartCount     |-> 0,
      lastError        |-> "null",
      isHealthy        |-> TRUE,
      healthCheckTimer |-> "null",
      ticks            |-> [t \in Ticks |-> IdleTick],   \* runs of the interval callback
      errs             |-> [h \in Errors |-> IdleError] ] \* runs of handleError

(***************************************************************************)
(* PdfGeneratorForm: state                                                 *)
(***************************************************************************)
MaxSubmits == 2

\* What the last render put on the three controls: disabled is
\* status === 'loading', and each control takes disabled={disabled}.
Render(status) ==
    LET disabled == status = "loading"
    IN  [urlDisabled |-> disabled, serviceDisabled |-> disabled,
         submitDisabled |-> disabled]

NoFetchResponse == [settled |-> FALSE, ok |-> FALSE]

\* The component after its first render: the four useState values, what
\* the render shows, and where handleSubmit is (idle, or awaiting fetch,
\* json or blob) with the body it sent and the response it got.
NewForm ==
    [ url          |-> "",
      service      |-> "archive-ph",
      status       |-> "idle",
      errorMessage |-> "",
      rendered     |-> Render("idle"),
      pc           |-> "idle",
      sent         |-> [url |-> "", service |-> ""],
      response     |-> NoFetchResponse,
      submits      |-> 0,
      downloads    |-> <<>> ]

(***************************************************************************)
(* Actions                                                                 *)
(***************************************************************************)
Init ==
    /\ req = [r \in Requests |-> IdleRequest]
    /\ arrivals = {1}
    /\ built = NoCalls
    /\ env \in EnvValues
    /\ mon = NewMonitor(NoOptionsGiven)
    /\ form = NewForm

\* Some request of `others` is between its arrival and its response.
InFlight(others) == \E q \in others : req[q].pc \notin {"idle", "done"}

\* A client posts `body` to `handler`; the handler awaits request.json().
Arrive(r, handler, body) ==
    /\ r \in arrivals
    /\ req[r].pc = "idle"
    /\ arrivals' = arrivals \ {r}
    /\ UNCHANGED <<built, env, mon, form>>
    /\ req' = [req EXCEPT ![r] = [@ EXCEPT !.pc = "json", !.handler = handler,
                                            !.body = body,
                                            !.overlapped = InFlight(Requests \ {r})]]

\* A plausible slip: the body read guarded on its own,
\* (await request.json().catch(() => null)) ?? {}, so that a body that is
\* not a JSON object counts as an empty one and fails the URL check.
BodyReadDefaults(r) ==
    LET rq == req[r]
        bad == ReadBodyFailure(rq.body)
        verdict == Validate(rq.handler, rq.body)
    IN  /\ rq.pc = "json"
        /\ req' = [req EXCEPT ![r] =
                IF bad # NoError
                THEN Respond(Settle(rq, TRUE), Reply(400, "A valid URL is required."))
                ELSE IF verdict.status # 0 THEN Respond(Settle(rq, TRUE), verdict)
                ELSE InvokeRenderer(Settle(rq, TRUE), NormalizeUrl(rq.body.url.chars),
                                    KeyOf(rq.handler, rq.body).text)]
        /\ UNCHANGED <<arrivals, built, env, mon, form>>

\* request.json() settles: the body is destructured and validated, and a
\* valid request enters the renderer up to its first await.
BodyRead(r) ==
    LET rq == req[r]
        bad == ReadBodyFailure(rq.body)
        verdict == Validate(rq.handler, rq.body)
    IN  /\ rq.pc = "json"
        /\ req' = [req EXCEPT ![r] =
                IF bad # NoError THEN Respond(Settle(rq, FALSE), HandlerCatch(bad))
                ELSE IF verdict.status # 0 THEN Respond(Settle(rq, TRUE), verdict)
                ELSE InvokeRenderer(Settle(rq, TRUE), NormalizeUrl(rq.body.url.chars),
                                    KeyOf(rq.handler, rq.body).text)]
        /\ UNCHANGED <<arrivals, built, env, mon, form>>

\* A plausible slip: the launched browser is kept in a module-level variable
\* and a request that finds one there uses it instead of its own.
LaunchSucceedsShared(r) ==
    LET rq == req[r]
        live == { q \in Requests \ {r} :
                    req[q].browser # NoBrowser /\ req[q].pc # "done" }
        handle == IF live = {} THEN [owner |-> r, attempt |-> rq.attempt]
                  ELSE req[CHOOSE q \in live : TRUE].browser
    IN  /\ rq.pc = "launch"
        /\ req' = [req EXCEPT ![r] =
                Logged([Settle(rq, TRUE) EXCEPT !.pc = "newPage", !.browser = handle,
                                  !.strategy = STRATEGIES[rq.attempt].label],
                       Call("newPage", "", <<>>, handle))]
        /\ UNCHANGED <<arrivals, built, env, mon, form>>

\* The launch in flight resolves: launchBrowser returns {browser, strategy}
\* and the renderer calls browser.newPage().
LaunchSucceeds(r) ==
    LET rq == req[r]
        handle == [owner |-> r, attempt |-> rq.attempt]
    IN  /\ rq.pc = "launch"
        /\ req' = [req EXCEPT ![r] =
                Logged([Settle(rq, TRUE) EXCEPT !.pc = "newPage", !.browser = handle,
                                  !.strategy = STRATEGIES[rq.attempt].label],
                       Call("newPage", "", <<>>, handle))]
        /\ UNCHANGED <<arrivals, built, env, mon, form>>

\* A plausible slip: launchBrowser() called inside the try block, so that
\* the finally block runs, and calls close, when no browser was launched.
LaunchFailsInsideTry(r, e) ==
    LET rq == req[r]
        noted == [Settle(rq, FALSE) EXCEPT !.rejections = Append(@, e),
                            !.errors =
                    Append(@, LaunchErrorEntry(STRATEGIES[rq.attempt].label, e))]
    IN  /\ rq.pc = "launch"
        /\ req' = [req EXCEPT ![r] =
                IF rq.attempt < Len(STRATEGIES)
                THEN LaunchCall(noted, rq.attempt + 1)
                ELSE TryThrows([noted EXCEPT !.attempt = 0],
                               LaunchExhausted(noted.errors))]
        /\ UNCHANGED <<arrivals, built, env, mon, form>>

\* A plausible slip: the catch block rethrows, so the first failed launch
\* ends the sequence.
LaunchFailsGivesUp(r, e) ==
    LET rq == req[r]
        noted == [Settle(rq, FALSE) EXCEPT !.rejections = Append(@, e),
                            !.errors =
                    Append(@, LaunchErrorEntry(STRATEGIES[rq.attempt].label, e))]
    IN  /\ rq.pc = "launch"
        /\ req' = [req EXCEPT ![r] =
                RendererThrows([noted EXCEPT !.attempt = 0],
                               LaunchExhausted(noted.errors))]
        /\ UNCHANGED <<arrivals, built, env, mon, form>>

\* A plausible slip: a configuration that failed is given a second chance
\* before the loop moves on.
LaunchFailsRetry(r, e) ==
    LET rq == req[r]
        label == STRATEGIES[rq.attempt].label
        noted == [Settle(rq, FALSE) EXCEPT !.rejections = Append(@, e),
                            !.errors = Append(@, LaunchErrorEntry(label, e))]
        tries == Len(SelectSeq(rq.log, LAMBDA c : c.op = "launch" /\ c.strategy = label))
    IN  /\ rq.pc = "launch"
        /\ req' = [req EXCEPT ![r] =
                IF tries < 2
                THEN LaunchCall(noted, rq.attempt)
                ELSE IF rq.attempt < Len(STRATEGIES)
                THEN LaunchCall(noted, rq.attempt + 1)
                ELSE RendererThrows([noted EXCEPT !.attempt = 0],
                                    LaunchExhausted(noted.errors))]
        /\ UNCHANGED <<arrivals, built, env, mon, form>>

\* The launch in flight rejects with e: the entry is pushed, and the loop
\* goes on to the next strategy or, after the last, throws the aggregate.
LaunchFails(r, e) ==
    LET rq == req[r]
        noted == [Settle(rq, FALSE) EXCEPT !.rejections = Append(@, e),
                            !.errors =
                    Append(@, LaunchErrorEntry(STRATEGIES[rq.attempt].label, e))]
    IN  /\ rq.pc = "launch"
        /\ req' = [req EXCEPT ![r] =
                IF rq.attempt < Len(STRATEGIES)
                THEN LaunchCall(noted, rq.attempt + 1)
                ELSE RendererThrows([noted EXCEPT !.attempt = 0],
                                    LaunchExhausted(noted.errors))]
        /\ UNCHANGED <<arrivals, built, env, mon, form>>

\* newPage resolves: the timeouts are set and page.goto(archiveUrl) is called.
NewPageSucceeds(r) ==
    LET rq == req[r]
    IN  /\ rq.pc = "newPage"
        /\ req' = [req EXCEPT ![r] =
                Logged([Settle(rq, TRUE) EXCEPT !.pc = "goto"],
                       Call("goto", "", rq.archiveUrl, rq.browser))]
        /\ UNCHANGED <<arrivals, built, env, mon, form>>

NewPageFails(r, e) ==
    /\ req[r].pc = "newPage"
    /\ req' = [req EXCEPT ![r] = TryThrows(Settle(req[r], FALSE), e)]
    /\ UNCHANGED <<arrivals, built, env, mon, form>>

\* goto resolves: page.waitForTimeout(1000) is called.
GotoSucceeds(r) ==
    LET rq == req[r]
    IN  /\ rq.pc = "goto"
        /\ req' = [req EXCEPT ![r] =
                Logged([Settle(rq, TRUE) EXCEPT !.pc = "delay"], Call("delay", "", <<>>, rq.browser))]
        /\ UNCHANGED <<arrivals, built, env, mon, form>>

\* A plausible slip: page.goto wrapped in a try/catch of its own that drops
\* the error, so the renderer goes on to the delay and the export.
GotoFailsIgnored(r, e) ==
    LET rq == req[r]
    IN  /\ rq.pc = "goto"
        /\ req' = [req EXCEPT ![r] =
                Logged([Settle(rq, FALSE) EXCEPT !.pc = "delay"],
                       Call("delay", "", <<>>, rq.browser))]
        /\ UNCHANGED <<arrivals, built, env, mon, form>>

\* A plausible slip: a navigation that failed is attempted a second time.
GotoFailsRetry(r, e) ==
    LET rq == req[r]
        gotos == Len(SelectSeq(rq.log, LAMBDA c : c.op = "goto"))
    IN  /\ rq.pc = "goto"
        /\ req' = [req EXCEPT ![r] =
                IF gotos < 2
                THEN Logged(Settle(rq, FALSE), Call("goto", "", rq.archiveUrl, rq.browser))
                ELSE TryThrows(Settle(rq, FALSE), e)]
        /\ UNCHANGED <<arrivals, built, env, mon, form>>

GotoFails(r, e) ==
    /\ req[r].pc = "goto"
    /\ req' = [req EXCEPT ![r] = TryThrows(Settle(req[r], FALSE), e)]
    /\ UNCHANGED <<arrivals, built, env, mon, form>>

\* The grace delay is over: page.pdf({format, printBackground}) is called.
DelaySucceeds(r) ==
    LET rq == req[r]
    IN  /\ rq.pc = "delay"
        /\ req' = [req EXCEPT ![r] =
                Logged([Settle(rq, TRUE) EXCEPT !.pc = "pdf"], Call("pdf", "", <<>>, rq.browser))]
        /\ UNCHANGED <<arrivals, built, env, mon, form>>

DelayFails(r, e) ==
    /\ req[r].pc = "delay"
    /\ req' = [req EXCEPT ![r] = TryThrows(Settle(req[r], FALSE), e)]
    /\ UNCHANGED <<arrivals, built, env, mon, form>>

\* page.pdf resolves: the try block returns, and the finally block runs.
PdfSucceeds(r) ==
    /\ req[r].pc = "pdf"
    /\ req' = [req EXCEPT ![r] = Finally(Settle(req[r], TRUE))]
    /\ UNCHANGED <<arrivals, built, env, mon, form>>

\* A plausible slip: a failed export is caught inside the renderer, which
\* returns what it has as if the PDF had been made.
PdfFailsReturns(r, e) ==
    /\ req[r].pc = "pdf"
    /\ req' = [req EXCEPT ![r] = Finally(Settle(req[r], FALSE))]
    /\ UNCHANGED <<arrivals, built, env, mon, form>>

PdfFails(r, e) ==
    /\ req[r].pc = "pdf"
    /\ req' = [req EXCEPT ![r] = TryThrows(Settle(req[r], FALSE), e)]
    /\ UNCHANGED <<arrivals, built, env, mon, form>>

\* A plausible slip: browser.close() awaited without the .catch, so that
\* its rejection leaves the finally block in place of the result.
CloseSettlesSurfaces(r, closed) ==
    LET rq == req[r]
    IN  /\ rq.pc = "close"
        /\ req' = [req EXCEPT ![r] =
                LET settled == [Settle(rq, closed) EXCEPT !.closeRejected = ~closed]
                IN  IF ~closed
                    THEN RendererThrows(settled,
                            Error("Protocol error (Browser.close): Target closed"))
                    ELSE IF rq.failed
                    THEN RendererThrows(settled, rq.thrown)
                    ELSE Respond(settled, SuccessResponse(settled))]
        /\ UNCHANGED <<arrivals, built, env, mon, form>>

\* browser.close() settles; a rejection is swallowed by .catch.  The
\* renderer then returns its result or rethrows, and the handler answers.
CloseSettles(r, closed) ==
    LET rq == req[r]
    IN  /\ rq.pc = "close"
        /\ req' = [req EXCEPT ![r] =
                LET settled == [Settle(rq, closed) EXCEPT !.closeRejected = ~closed]
                IN  IF rq.failed
                    THEN RendererThrows(settled, rq.thrown)
                    ELSE Respond(settled, SuccessResponse(settled))]
        /\ UNCHANGED <<arrivals, built, env, mon, form>>

Next ==
    \/ \E r \in Requests, h \in Handlers, b \in Bodies : Arrive(r, h, b)
    \/ \E r \in Requests : BodyRead(r)
    \/ \E r \in Requests : LaunchSucceeds(r)
    \/ \E r \in Requests, e \in LaunchFailures : LaunchFails(r, e)
    \/ \E r \in Requests : NewPageSucceeds(r)
    \/ \E r \in Requests, e \in NewPageFailures : NewPageFails(r, e)
    \/ \E r \in Requests : GotoSucceeds(r)
    \/ \E r \in Requests, e \in GotoFailures : GotoFails(r, e)
    \/ \E r \in Requests : DelaySucceeds(r)
    \/ \E r \in Requests, e \in DelayFailures : DelayFails(r, e)
    \/ \E r \in Requests : PdfSucceeds(r)
    \/ \E r \in Requests, e \in PdfFailures : PdfFails(r, e)
    \/ \E r \in Requests, closed \in BOOLEAN : CloseSettles(r, closed)

Spec == Init /\ [][Next]_vars

\* Every awaited call settles in the end, one way or the other: the body
\* read, each launch (timeout 45000), page open, navigation and export (the
\* page's default timeouts), the delay and the close.
\* A request awaits one call at a time, so this is the settling of the call
\* it is waiting for.
Settles(r) ==
    \/ BodyRead(r)
    \/ LaunchSucceeds(r) \/ \E e \in LaunchFailures : LaunchFails(r, e)
    \/ NewPageSucceeds(r) \/ \E e \in NewPageFailures : NewPageFails(r, e)
    \/ GotoSucceeds(r) \/ \E e \in GotoFailures : GotoFails(r, e)
    \/ DelaySucceeds(r) \/ \E e \in DelayFailures : DelayFails(r, e)
    \/ PdfSucceeds(r) \/ \E e \in PdfFailures : PdfFails(r, e)
    \/ \E closed \in BOOLEAN : CloseSettles(r, closed)

SpecLive == Init /\ [][Next]_vars /\ \A r \in Requests : WF_vars(Settles(r))

(***************************************************************************)
(* Several requests served at once, on either handler                      *)
(***************************************************************************)
\* Bodies that carry both fields, so that either handler finds its key.
ConcBodies ==
    { [kind |-> "object", url |-> UrlString(UrlSpace),
       provider |-> KeyString("internet-archive"), service |-> KeyString("wayback")],
      [kind |-> "object", url |-> UrlString(UrlFtp),
       provider |-> KeyString("twelve-foot"), service |-> KeyString("twelve-ft")] }

InitConc ==
    /\ req = [r \in Requests |-> IdleRequest]
    /\ arrivals = Requests
    /\ built = NoCalls
    /\ env = EnvUnset
    /\ mon = NewMonitor(NoOptionsGiven)
    /\ form = NewForm

NextConc ==
    \/ \E r \in Requests, h \in Handlers, b \in ConcBodies : Arrive(r, h, b)
    \/ \E r \in Requests : BodyRead(r)
    \/ \E r \in Requests : LaunchSucceeds(r)
    \/ \E r \in Requests, e \in LaunchFailures : LaunchFails(r, e)
    \/ \E r \in Requests : NewPageSucceeds(r)
    \/ \E r \in Requests, e \in NewPageFailures : NewPageFails(r, e)
    \/ \E r \in Requests : GotoSucceeds(r)
    \/ \E r \in Requests, e \in GotoFailures : GotoFails(r, e)
    \/ \E r \in Requests : DelaySucceeds(r)
    \/ \E r \in Requests, e \in DelayFailures : DelayFails(r, e)
    \/ \E r \in Requests : PdfSucceeds(r)
    \/ \E r \in Requests, e \in PdfFailures : PdfFails(r, e)
    \/ \E r \in Requests, closed \in BOOLEAN : CloseSettles(r, closed)

SpecConc == InitConc /\ [][NextConc]_vars

(***************************************************************************)
(* buildUrl called directly, on strings of every shape                     *)
(***************************************************************************)
MaxInputLen == 3
MaxCalls == 2

BuildAlphabet == {"a", "/", ":", " ", "%", "é"}

BuildInputs == UNION { [1..n -> BuildAlphabet] : n \in 0..MaxInputLen }

InitBuildUrl ==
    /\ req = [r \in Requests |-> IdleRequest]
    /\ arrivals = {}
    /\ env = EnvUnset
    /\ mon = NewMonitor(NoOptionsGiven)
    /\ form = NewForm
    /\ built \in { [input |-> x, results |-> <<>>] : x \in BuildInputs }

\* catalog[key].buildUrl(built.input)
CallBuildUrl(handler, key) ==
    /\ Len(built.results) < MaxCalls
    /\ built' = [built EXCEPT !.results =
                    Append(@, [catalog |-> handler, key |-> key,
                               out |-> BuildUrl(CatalogOf(handler)[key], built.input)])]
    /\ UNCHANGED <<req, arrivals, env, mon, form>>

NextBuildUrl ==
    \E h \in Handlers : \E k \in DOMAIN CatalogOf(h) : CallBuildUrl(h, k)

SpecBuildUrl == InitBuildUrl /\ [][NextBuildUrl]_vars

(***************************************************************************)
(* PuppeteerErrorMonitor: handleError                                      *)
(***************************************************************************)
RECURSIVE LowerCase(_)
\* The message with its ASCII letters in lower case, which is how a
\* pattern with the i flag sees it.
LowerCase(str) ==
    IF str = "" THEN ""
    ELSE ToLowerChar(SubSeq(str, 1, 1)) \o LowerCase(SubSeq(str, 2, Len(str)))

\* The positions where `literal` occurs in `str`.
Occurrences(str, literal) ==
    { i \in 1..(Len(str) - Len(literal) + 1) :
        SubSeq(str, i, i + Len(literal) - 1) = literal }

LineTerminators == {"\n", "\r"}

\* One alternative of a pattern: <<a>> is the literal a, and <<a, b>> is
\* a.*b, where . matches anything but a line terminator.
MatchesAlternative(str, alt) ==
    IF Len(alt) = 1 THEN Occurrences(str, alt[1]) # {}
    ELSE \E i \in Occurrences(str, alt[1]) : \E j \in Occurrences(str, alt[2]) :
            /\ j >= i + Len(alt[1])
            /\ \A k \in (i + Len(alt[1]))..(j - 1) :
                    SubSeq(str, k, k) \notin LineTerminators

\* pattern.test(errorMessage), for a pattern /a|b|.../i given by its
\* alternatives in lower case (no g flag, so the test keeps no position).
PatternTest(pattern, errorMessage) ==
    \E alt \in pattern : MatchesAlternative(LowerCase(errorMessage), alt)

\* A plausible slip: the navigation handler declared before the timeout one.
ErrorHandlersNavigationFirst ==
    << [type |-> "MISSING_LIBRARY", severity |-> "CRITICAL",
        pattern |-> { <<"cannot open shared object file">> }],
       [type |-> "BROWSER_CRASH", severity |-> "HIGH",
        pattern |-> { <<"protocol error", "target closed">> }],
       [type |-> "NAVIGATION_FAILED", severity |-> "MEDIUM",
        pattern |-> { <<"net::err_">>, <<"navigation timeout">>, <<"failed to navigate">> }],
       [type |-> "TIMEOUT", severity |-> "MEDIUM",
        pattern |-> { <<"timeout">> }],
       [type |-> "OUT_OF_MEMORY", severity |-> "HIGH",
        pattern |-> { <<"out of memory">>, <<"cannot allocate memory">> }],
       [type |-> "SHM_ISSUE", severity |-> "HIGH",
        pattern |-> { <<"/dev/shm">>, <<"shared memory">> }],
       [type |-> "PAGE_CRASH", severity |-> "MEDIUM",
        pattern |-> { <<"page crashed">> }],
       [type |-> "CONNECTION_REFUSED", severity |-> "HIGH",
        pattern |-> { <<"econnrefused">>, <<"connection refused">> }],
       [type |-> "SANDBOX_ERROR", severity |-> "MEDIUM",
        pattern |-> { <<"sandbox">>, <<"suid">> }] >>

\* Object.entries(this.errorHandlers): the handlers in declaration order.
ErrorHandlers ==
    << [type |-> "MISSING_LIBRARY", severity |-> "CRITICAL",
        pattern |-> { <<"cannot open shared object file">> }],
       [type |-> "BROWSER_CRASH", severity |-> "HIGH",
        pattern |-> { <<"protocol error", "target closed">> }],
       [type |-> "TIMEOUT", severity |-> "MEDIUM",
        pattern |-> { <<"timeout">> }],
       [type |-> "NAVIGATION_FAILED", severity |-> "MEDIUM",
        pattern |-> { <<"net::err_">>, <<"navigation timeout">>, <<"failed to navigate">> }],
       [type |-> "OUT_OF_MEMORY", severity |-> "HIGH",
        pattern |-> { <<"out of memory">>, <<"cannot allocate memory">> }],
       [type |-> "SHM_ISSUE", severity |-> "HIGH",
        pattern |-> { <<"/dev/shm">>, <<"shared memory">> }],
       [type |-> "PAGE_CRASH", severity |-> "MEDIUM",
        pattern |-> { <<"page crashed">> }],
       [type |-> "CONNECTION_REFUSED", severity |-> "HIGH",
        pattern |-> { <<"econnrefused">>, <<"connection refused">> }],
       [type |-> "SANDBOX_ERROR", severity |-> "MEDIUM",
        pattern |-> { <<"sandbox">>, <<"suid">> }] >>

\* error.message || error.toString(), for an Error
ErrorMessageOf(error) == IF error # "" THEN error ELSE "Error"

\* The for loop of handleError: the index of the first handler whose
\* pattern matches, 0 when none does.
FirstMatch(errorMessage) ==
    LET hits == { i \in DOMAIN ErrorHandlers :
                    PatternTest(ErrorHandlers[i].pattern, errorMessage) }
    IN  IF hits = {} THEN 0 ELSE CHOOSE i \in hits : \A j \in hits : i <= j

\* What handler.handler(error) returns, once its logError is over.
HandlerResult(type, m) ==
    CASE type = "MISSING_LIBRARY" -> [canRecover |-> FALSE, action |-> "INSTALL_DEPS"]
      [] type = "BROWSER_CRASH" ->
            IF m.options.enableAutoRecovery /\ m.restartCount < m.options.maxRestarts
            THEN [canRecover |-> TRUE, action |-> "RESTART_BROWSER"]
            ELSE [canRecover |-> FALSE, action |-> "MANUAL_INTERVENTION"]
      [] type = "TIMEOUT" -> [canRecover |-> TRUE, action |-> "RETRY_WITH_LONGER_TIMEOUT"]
      [] type = "NAVIGATION_FAILED" -> [canRecover |-> TRUE, action |-> "RETRY_NAVIGATION"]
      [] type = "OUT_OF_MEMORY" ->
            [canRecover |-> TRUE, action |-> "RESTART_WITH_REDUCED_RESOURCES"]
      [] type = "SHM_ISSUE" -> [canRecover |-> TRUE, action |-> "RESTART_WITH_NO_SHM"]
      [] type = "PAGE_CRASH" -> [canRecover |-> TRUE, action |-> "RECREATE_PAGE"]
      [] type = "CONNECTION_REFUSED" -> [canRecover |-> TRUE, action |-> "RESTART_BROWSER"]
      [] type = "SANDBOX_ERROR" -> [canRecover |-> TRUE, action |-> "RESTART_NO_SANDBOX"]
      [] OTHER -> [canRecover |-> FALSE, action |-> "MANUAL_INTERVENTION"]

\* The messages of the errors handed to handleError.
ErrorMessages ==
    { "Navigation timeout of 45000 ms exceeded",
      "net::ERR_NAME_NOT_RESOLVED",
      "Protocol error (Page.navigate): Target closed.",
      "Protocol error (Runtime.callFunctionOn):\nTarget closed.",
      "libnss3.so: cannot open shared object file: No such file or directory",
      "TimeoutError: waiting for /dev/shm failed",
      "Cannot allocate memory",
      "Page crashed!",
      "connect ECONNREFUSED 127.0.0.1:9222",
      "No usable sandbox!",
      "Something else went wrong",
      "" }

\* this.emit(event, ...) from the callback of tick `tick` (0: from handleError).
Emit(event, tick, attemptNumber) ==
    [event |-> event, tick |-> tick, attemptNumber |-> attemptNumber,
     handler |-> 0, type |-> "", severity |-> "", error |-> "", result |-> NoResult]

\* this.emit('error-detected', {type, severity, error, result})
EmitErrorDetected(h, type, severity, error, result) ==
    [event |-> "error-detected", tick |-> 0, attemptNumber |-> 0,
     handler |-> h, type |-> type, severity |-> severity, error |-> error,
     result |-> result]

\* The handler handleError picks for each of the messages.
HandlerFor == [error \in ErrorMessages |-> FirstMatch(ErrorMessageOf(error))]

\* handleError up to the await of logError inside the handler it picked
\* (or of logError('UNKNOWN')).
HandleErrorCalled(h, error) ==
    /\ mon.errs[h].pc = "idle"
    /\ \A g \in Errors : g < h => mon.errs[g].pc # "idle"
    /\ LET i == HandlerFor[error]
           type == IF i = 0 THEN "UNKNOWN" ELSE ErrorHandlers[i].type
       IN  mon' = [mon EXCEPT !.lastError = error,
                              !.isHealthy = FALSE,
                              !.errs[h] = [pc |-> "log", error |-> error, type |-> type,
                                           handlersRun |-> IF i = 0 THEN 0 ELSE 1,
                                           result |-> NoResult, emitted |-> <<>>]]
    /\ UNCHANGED <<req, arrivals, built, env, form>>

\* logError is over (a failed write is caught inside it): the handler
\* returns its result, handleError emits 'error-detected' and returns it;
\* with no handler it returns MANUAL_INTERVENTION and emits nothing.
HandleErrorLogged(h) ==
    /\ mon.errs[h].pc = "log"
    /\ LET type == mon.errs[h].type
           result == HandlerResult(type, mon)
           i == HandlerFor[mon.errs[h].error]
       IN  mon' = [mon EXCEPT !.errs[h].pc = "done",
                              !.errs[h].result = result,
                              !.errs[h].emitted = IF type = "UNKNOWN" THEN @
                                          ELSE Append(@, EmitErrorDetected(h, type,
                                                   ErrorHandlers[i].severity,
                                                   mon.errs[h].error, result))]
    /\ UNCHANGED <<req, arrivals, built, env, form>>

(***************************************************************************)
(* PuppeteerErrorMonitor: health monitoring and recovery                   *)
(***************************************************************************)
\* The browser handed to startHealthMonitoring.
Browsers == {"browser", "null"}

StartHealthMonitoring(browser) ==
    /\ mon' = [mon EXCEPT !.browserInstance = browser, !.healthCheckTimer = "set"]
    /\ mon' # mon
    /\ UNCHANGED <<req, arrivals, built, env, form>>

StopHealthMonitoring ==
    /\ mon.healthCheckTimer # "null"
    /\ mon' = [mon EXCEPT !.healthCheckTimer = "null"]
    /\ UNCHANGED <<req, arrivals, built, env, form>>

\* The interval fires: the callback calls browserManager.healthCheck() and
\* awaits it.  Callbacks are numbered in the order they fire; nothing makes
\* one wait for the one before it.
HealthTickFires(t) ==
    /\ mon.healthCheckTimer = "set"
    /\ mon.ticks[t].pc = "idle"
    /\ \A u \in Ticks : u < t => mon.ticks[u].pc # "idle"
    /\ mon' = [mon EXCEPT !.ticks[t].pc = "check",
                          !.ticks[t].calls = Append(@, "healthCheck")]
    /\ UNCHANGED <<req, arrivals, built, env, form>>

HealthOutcomes == {"healthy", "unhealthy", "throws"}

\* A plausible slip: attemptRecovery that counts the attempt before it
\* looks at the limit.
AttemptRecoveryCountsFirst(m, t) ==
    LET counted == [m EXCEPT !.restartCount = @ + 1]
    IN  IF counted.restartCount > m.options.maxRestarts
        THEN [counted EXCEPT !.ticks[t].pc = "done",
                       !.ticks[t].recovery = "refused",
                       !.ticks[t].emitted = Append(@, Emit("max-restarts-reached", t, 0))]
        ELSE IF m.browserInstance # "null"
        THEN [counted EXCEPT !.ticks[t].pc = "close",
                       !.ticks[t].recovery = "started",
                       !.ticks[t].attempt = counted.restartCount,
                       !.ticks[t].calls = Append(@, "close")]
        ELSE [counted EXCEPT !.ticks[t].pc = "delay",
                       !.ticks[t].recovery = "started",
                       !.ticks[t].attempt = counted.restartCount]

\* attemptRecovery up to its first await, from monitor state m, called by
\* the callback of tick t.
AttemptRecovery(m, t) ==
    IF m.restartCount >= m.options.maxRestarts
    THEN [m EXCEPT !.ticks[t].pc = "done",
                   !.ticks[t].recovery = "refused",
                   !.ticks[t].emitted = Append(@, Emit("max-restarts-reached", t, 0))]
    ELSE IF m.browserInstance # "null"
    THEN [m EXCEPT !.restartCount = @ + 1,
                   !.ticks[t].pc = "close",
                   !.ticks[t].recovery = "started",
                   !.ticks[t].attempt = m.restartCount + 1,
                   !.ticks[t].calls = Append(@, "close")]
    ELSE [m EXCEPT !.restartCount = @ + 1,
                   !.ticks[t].pc = "delay",
                   !.ticks[t].recovery = "started",
                   !.ticks[t].attempt = m.restartCount + 1]

\* A plausible slip: a callback that recovers whenever the check fails.
HealthCheckSettlesAlwaysRecovers(t, outcome) ==
    /\ mon.ticks[t].pc = "check"
    /\ LET seen == [mon EXCEPT !.ticks[t].healthy = outcome,
                               !.ticks[t].sawHealthy = mon.isHealthy]
       IN  mon' =
             IF outcome = "unhealthy"
             THEN AttemptRecovery(
                      [seen EXCEPT !.isHealthy = FALSE,
                                   !.ticks[t].emitted = Append(@, Emit("health-check-failed", t, 0))], t)
             ELSE IF outcome = "healthy" /\ ~mon.isHealthy
             THEN [seen EXCEPT !.isHealthy = TRUE,
                               !.ticks[t].pc = "done",
                               !.ticks[t].emitted = Append(@, Emit("browser-recovered", t, 0))]
             ELSE [seen EXCEPT !.ticks[t].pc = "done"]
    /\ UNCHANGED <<req, arrivals, built, env, form>>

\* healthCheck() settles and the callback runs on to its next await or to
\* its end; isHealthy is read now, after the await.
HealthCheckSettles(t, outcome) ==
    /\ mon.ticks[t].pc = "check"
    /\ LET seen == [mon EXCEPT !.ticks[t].healthy = outcome,
                               !.ticks[t].sawHealthy = mon.isHealthy]
       IN  mon' =
             IF outcome = "unhealthy" /\ mon.isHealthy
             THEN LET failed == [seen EXCEPT !.isHealthy = FALSE,
                                   !.ticks[t].emitted = Append(@, Emit("health-check-failed", t, 0))]
                  IN  IF mon.options.enableAutoRecovery
                      THEN AttemptRecovery(failed, t)
                      ELSE [failed EXCEPT !.ticks[t].pc = "done"]
             ELSE IF outcome = "healthy" /\ ~mon.isHealthy
             THEN [seen EXCEPT !.isHealthy = TRUE,
                               !.ticks[t].pc = "done",
                               !.ticks[t].emitted = Append(@, Emit("browser-recovered", t, 0))]
             ELSE [seen EXCEPT !.ticks[t].pc = "done"]
    /\ UNCHANGED <<req, arrivals, built, env, form>>

\* browserInstance.close() settles; a rejection is caught and logged.
RecoveryCloseSettles(t, closed) ==
    /\ mon.ticks[t].pc = "close"
    /\ mon' = [mon EXCEPT !.ticks[t].pc = "delay"]
    /\ UNCHANGED <<req, arrivals, built, env, form>>

\* The restart delay is over: browserManager.launch() is called.
RestartDelayElapses(t) ==
    /\ mon.ticks[t].pc = "delay"
    /\ mon' = [mon EXCEPT !.ticks[t].pc = "launch",
                          !.ticks[t].calls = Append(@, "launch")]
    /\ UNCHANGED <<req, arrivals, built, env, form>>

\* A plausible slip: a successful recovery that starts the count afresh.
RecoveryLaunchSettlesResetsCount(t, launched) ==
    /\ mon.ticks[t].pc = "launch"
    /\ mon' = IF launched
              THEN [mon EXCEPT !.isHealthy = TRUE,
                               !.restartCount = 0,
                               !.ticks[t].pc = "done",
                               !.ticks[t].recovery = "succeeded",
                               !.ticks[t].emitted = Append(@, Emit("recovery-successful", t,
                                                                   mon.restartCount))]
              ELSE [mon EXCEPT !.ticks[t].pc = "done",
                               !.ticks[t].recovery = "failed",
                               !.ticks[t].emitted = Append(@, Emit("recovery-failed", t,
                                                                   mon.restartCount))]
    /\ UNCHANGED <<req, arrivals, built, env, form>>

\* browserManager.launch() settles.
RecoveryLaunchSettles(t, launched) ==
    /\ mon.ticks[t].pc = "launch"
    /\ mon' = IF launched
              THEN [mon EXCEPT !.isHealthy = TRUE,
                               !.ticks[t].pc = "done",
                               !.ticks[t].recovery = "succeeded",
                               !.ticks[t].emitted = Append(@, Emit("recovery-successful", t,
                                                          mon.restartCount))]
              ELSE [mon EXCEPT !.ticks[t].pc = "done",
                               !.ticks[t].recovery = "failed",
                               !.ticks[t].emitted = Append(@, Emit("recovery-failed", t,
                                                          mon.restartCount))]
    /\ UNCHANGED <<req, arrivals, built, env, form>>

\* A monitor constructed with any of the options, nothing else going on.
InitMonitor ==
    /\ req = [r \in Requests |-> IdleRequest]
    /\ arrivals = {}
    /\ built = NoCalls
    /\ env = EnvUnset
    /\ \E options \in OptionsGiven : mon = NewMonitor(options)
    /\ form = NewForm

NextMonitor ==
    \/ \E h \in Errors : \E error \in ErrorMessages : HandleErrorCalled(h, error)
    \/ \E h \in Errors : HandleErrorLogged(h)
    \/ \E browser \in Browsers : StartHealthMonitoring(browser)
    \/ StopHealthMonitoring
    \/ \E t \in Ticks : HealthTickFires(t)
    \/ \E t \in Ticks : \E outcome \in HealthOutcomes : HealthCheckSettles(t, outcome)
    \/ \E t \in Ticks : \E closed \in BOOLEAN : RecoveryCloseSettles(t, closed)
    \/ \E t \in Ticks : RestartDelayElapses(t)
    \/ \E t \in Ticks : \E launched \in BOOLEAN : RecoveryLaunchSettles(t, launched)

SpecMonitor == InitMonitor /\ [][NextMonitor]_vars

(***************************************************************************)
(* PdfGeneratorForm                                                        *)
(***************************************************************************)
\* What a user may type into the URL input.
FormUrlValues == {"", "not a url", "https://a.com/x", "ftp://a.com/x"}

\* The input is required and of type url: the browser fires no submit event
\* unless its value is an absolute URL.
PassesUrlInput(value) == value # "" /\ Occurrences(value, "://") # {}

\* The state setters: the new state, rendered again.
SetForm(f) == [f EXCEPT !.rendered = Render(f.status)]

\* onChange of the URL input
ChangeUrl(value) ==
    /\ ~form.rendered.urlDisabled
    /\ value # form.url
    /\ form' = SetForm([form EXCEPT !.url = value])
    /\ UNCHANGED <<req, arrivals, built, env, mon>>

\* onChange of the service selector, whose options are the keys of
\* ARCHIVE_SERVICES
ChangeService(key) ==
    /\ ~form.rendered.serviceDisabled
    /\ key # form.service
    /\ form' = SetForm([form EXCEPT !.service = key])
    /\ UNCHANGED <<req, arrivals, built, env, mon>>

\* handleSubmit up to the await of fetch.
Submit ==
    /\ ~form.rendered.submitDisabled
    /\ PassesUrlInput(form.url)
    /\ form.submits < MaxSubmits
    /\ form' = SetForm([form EXCEPT !.status = "loading",
                                    !.errorMessage = "",
                                    !.pc = "fetch",
                                    !.sent = [url |-> form.url, service |-> form.service],
                                    !.response = NoFetchResponse,
                                    !.submits = @ + 1])
    /\ UNCHANGED <<req, arrivals, built, env, mon>>

FetchOutcomes == {"ok", "notOk", "rejected"}

\* A plausible slip: the response is taken as a PDF whatever its status.
FetchSettlesIgnoresStatus(outcome) ==
    /\ form.pc = "fetch"
    /\ form' =
         IF outcome = "rejected"
         THEN SetForm([form EXCEPT !.status = "error",
                                   !.errorMessage = "Failed to generate PDF. Please try again.",
                                   !.pc = "idle"])
         ELSE [form EXCEPT !.pc = "blob",
                           !.response = [settled |-> TRUE, ok |-> outcome = "ok"]]
    /\ UNCHANGED <<req, arrivals, built, env, mon>>

\* fetch settles: a rejection goes to the catch; a response that is not OK
\* has its body parsed; an OK one has its body read as a blob.
FetchSettles(outcome) ==
    /\ form.pc = "fetch"
    /\ form' =
         IF outcome = "rejected"
         THEN SetForm([form EXCEPT !.status = "error",
                                   !.errorMessage = "Failed to generate PDF. Please try again.",
                                   !.pc = "idle"])
         ELSE [form EXCEPT !.pc = IF outcome = "ok" THEN "blob" ELSE "json",
                           !.response = [settled |-> TRUE, ok |-> outcome = "ok"]]
    /\ UNCHANGED <<req, arrivals, built, env, mon>>

\* What response.json().catch(() => null) gives: null when the body is not
\* JSON, or the object the server sent.
Payloads ==
    { [isNull |-> TRUE, ok |-> FALSE, message |-> ""],
      [isNull |-> FALSE, ok |-> TRUE, message |-> ""],
      [isNull |-> FALSE, ok |-> FALSE, message |-> "A valid URL is required."],
      [isNull |-> FALSE, ok |-> FALSE, message |-> "An archive service is required."] }

\* The body of a response that is not OK has been parsed.
JsonSettles(payload) ==
    /\ form.pc = "json"
    /\ LET message == IF ~payload.isNull /\ ~payload.ok
                      THEN payload.message ELSE "Unexpected error"
       IN  form' = SetForm([form EXCEPT !.status = "error",
                                        !.errorMessage = message,
                                        !.pc = "idle"])
    /\ UNCHANGED <<req, arrivals, built, env, mon>>

\* response.blob() settles: the file is handed to the browser under the
\* label of the service that was sent, or the rejection goes to the catch.
BlobSettles(resolved) ==
    /\ form.pc = "blob"
    /\ form' =
         IF resolved
         THEN SetForm([form EXCEPT
                  !.status = "success",
                  !.pc = "idle",
                  !.downloads = Append(@, IF form.sent.service \in DOMAIN ARCHIVE_SERVICES
                                          THEN ARCHIVE_SERVICES[form.sent.service].label
                                          ELSE "archive")])
         ELSE SetForm([form EXCEPT !.status = "error",
                                   !.errorMessage = "Failed to generate PDF. Please try again.",
                                   !.pc = "idle"])
    /\ UNCHANGED <<req, arrivals, built, env, mon>>

\* A form just mounted, nothing else going on.
InitForm ==
    /\ req = [r \in Requests |-> IdleRequest]
    /\ arrivals = {}
    /\ built = NoCalls
    /\ env = EnvUnset
    /\ mon = NewMonitor(NoOptionsGiven)
    /\ form = NewForm

\* The body of the response, once the response is there, is read to its end
\* or fails.
BodySettles ==
    \/ \E payload \in Payloads : JsonSettles(payload)
    \/ \E resolved \in BOOLEAN : BlobSettles(resolved)

NextForm ==
    \/ \E value \in FormUrlValues : ChangeUrl(value)
    \/ \E key \in DOMAIN ARCHIVE_SERVICES : ChangeService(key)
    \/ Submit
    \/ \E outcome \in FetchOutcomes : FetchSettles(outcome)
    \/ \E payload \in Payloads : JsonSettles(payload)
    \/ \E resolved \in BOOLEAN : BlobSettles(resolved)

SpecForm == InitForm /\ [][NextForm]_vars /\ WF_vars(BodySettles)

(***************************************************************************)
(* Properties                                                              *)
(***************************************************************************)
\* The calls of one kind a request has made, in order.
CallsOf(rq, op) == SelectSeq(rq.log, LAMBDA c : c.op = op)

\* The text a rejected launch is reported with.
FailureText(e) == IF e.isError THEN e.message ELSE e.string

LaunchOrder == <<"default-new-headless", "shell-headless", "legacy-headless">>

\* C1: launchBrowser attempts the configurations in the order
\* default-new-headless, shell-headless, legacy-headless, each attempt after
\* the first following the failure of the one before; once a launch succeeds
\* it returns that handle with that configuration's label, and no further
\* launch is attempted.
C1_LaunchInOrder ==
    \A r \in Requests :
        LET rq == req[r]
            launches == CallsOf(rq, "launch")
            n == Len(launches)
        IN  /\ n <= Len(LaunchOrder)
            /\ \A i \in 1..n : launches[i].strategy = LaunchOrder[i]
            /\ n > 0 => Len(rq.rejections) \in {n - 1, n}
            /\ rq.browser # NoBrowser =>
                    /\ Len(rq.rejections) = n - 1
                    /\ rq.browser.attempt = n
                    /\ rq.strategy = LaunchOrder[n]

C1_Witness ==
    \E r \in Requests :
        /\ req[r].pc = "done"
        /\ req[r].browser # NoBrowser
        /\ Len(req[r].rejections) = 2
        /\ req[r].strategy = "legacy-headless"

\* C2: when all three launches fail, launchBrowser throws one Error whose
\* message lists, in attempt order, each configuration's label followed by
\* its own failure message, the entries joined by "; ", and no handle is
\* returned.
C2_AggregateFailure ==
    \A r \in Requests :
        LET rq == req[r]
            f == rq.rejections
        IN  Len(f) = 3 =>
                /\ rq.failed
                /\ rq.thrown.isError
                /\ rq.thrown.message =
                        "Failed to launch Chromium with Puppeteer. Tried strategies: "
                        \o "default-new-headless: " \o FailureText(f[1])
                        \o "; shell-headless: " \o FailureText(f[2])
                        \o "; legacy-headless: " \o FailureText(f[3])
                /\ rq.browser = NoBrowser
                /\ CallsOf(rq, "newPage") = <<>>

C2_Witness ==
    \E r \in Requests :
        /\ Len(req[r].rejections) = 3
        /\ req[r].rejections[1].isError
        /\ ~req[r].rejections[2].isError
        /\ req[r].pc = "done"

\* C3: once a request has a browser handle, browser.close is called on that
\* handle and on no other, not before the try block has ended and exactly
\* once by the time the renderer is done, whether the try block returned or
\* threw at page open, navigation, the delay or the export.
C3_CloseExactlyOnce ==
    \A r \in Requests :
        LET rq == req[r]
            closes == CallsOf(rq, "close")
        IN  /\ \A i \in DOMAIN closes :
                    closes[i].browser = rq.browser /\ rq.browser # NoBrowser
            /\ rq.browser # NoBrowser =>
                    /\ rq.pc \in {"newPage", "goto", "delay", "pdf"} => Len(closes) = 0
                    /\ rq.pc \in {"close", "done"} => Len(closes) = 1

C3_Witness ==
    \E r \in Requests :
        /\ req[r].pc = "done"
        /\ req[r].thrown \in PdfFailures
        /\ Len(CallsOf(req[r], "close")) = 1

\* The keys of the two catalogs, as the specification fixes them.
FixedKeys(handler) ==
    IF handler = "pdf-render"
    THEN {"archive-today", "internet-archive", "twelve-foot"}
    ELSE {"archive-ph", "wayback", "twelve-ft"}

\* The body is a JSON object with no url, an empty one, or one not a string.
MissingUrl(body) == body.url.type # "string" \/ body.url.chars = <<>>

\* The key the handler reads is no string or none of its catalog's keys.
UnknownKey(handler, body) ==
    LET k == KeyOf(handler, body)
    IN  k.type # "string" \/ k.text \notin FixedKeys(handler)

\* The url is a string that new URL() rejects, or whose scheme is not http(s).
NonHttpScheme(body) ==
    /\ body.url.type = "string"
    /\ ParseUrl(body.url.chars).ok
    /\ ParseUrl(body.url.chars).protocol \notin HttpProtocols

BadUrl(body) ==
    /\ body.url.type = "string"
    /\ ~ParseUrl(body.url.chars).ok \/ NonHttpScheme(body)

\* C4: a request whose JSON object has no URL or an unknown provider key is
\* answered 400, and the renderer is never invoked for it (so no launch is
\* attempted).
C4_InvalidInputIs400 ==
    \A r \in Requests :
        LET rq == req[r]
        IN  (rq.body.kind = "object"
                /\ (MissingUrl(rq.body) \/ UnknownKey(rq.handler, rq.body))) =>
                /\ CallsOf(rq, "render") = <<>>
                /\ CallsOf(rq, "launch") = <<>>
                /\ rq.pc = "done" =>
                        rq.response.status = 400 /\ rq.response.message # ""

\* C5: the key passes validation exactly when it is a string equal to one of
\* the three fixed keys of the handler's catalog: with a URL that is in
\* order, any other value is answered 400 with the key-required message, a
\* fixed key never is, and whenever the renderer looks a key up it is one of
\* the fixed keys, whose catalog entry has a buildUrl.
C5_KeyIsExactMatch ==
    \A r \in Requests :
        LET rq == req[r]
            rejected == rq.response = Reply(400, KeyRequiredMessage(rq.handler))
        IN  (rq.pc = "done" /\ rq.body.kind = "object"
                /\ ~MissingUrl(rq.body) /\ ~BadUrl(rq.body)) =>
                /\ UnknownKey(rq.handler, rq.body) <=> rejected
                /\ CallsOf(rq, "render") # <<>> =>
                        KeyOf(rq.handler, rq.body).text \in FixedKeys(rq.handler)

\* C6 as written: a request whose URL string does not parse, or has a scheme
\* other than http or https, is answered 400 with no launch attempted, and
\* for a scheme such as ftp the message is the HTTP(S) one.
C6_BadUrlIs400HttpMessage ==
    \A r \in Requests :
        LET rq == req[r]
        IN  (rq.body.kind = "object" /\ BadUrl(rq.body)) =>
                /\ CallsOf(rq, "launch") = <<>>
                /\ rq.pc = "done" =>
                        /\ rq.response.status = 400
                        /\ NonHttpScheme(rq.body) =>
                                rq.response.message = "Only HTTP(S) URLs are supported."

\* C6, amended: a request whose URL string does not parse, or has a scheme
\* other than http or https, is answered 400 with no launch attempted; the
\* message is the HTTP(S) one when the scheme is not http(s) and the key
\* passed the handler's check, which comes first.
C6_BadUrlIs400 ==
    \A r \in Requests :
        LET rq == req[r]
        IN  (rq.body.kind = "object" /\ BadUrl(rq.body)) =>
                /\ CallsOf(rq, "launch") = <<>>
                /\ CallsOf(rq, "render") = <<>>
                /\ rq.pc = "done" =>
                        /\ rq.response.status = 400
                        /\ (NonHttpScheme(rq.body)
                              /\ KeyAccepted(rq.handler, KeyOf(rq.handler, rq.body))) =>
                                rq.response.message = "Only HTTP(S) URLs are supported."

C6_Witness ==
    \E r \in Requests :
        /\ req[r].pc = "done"
        /\ req[r].body.url = UrlString(UrlFtp)
        /\ req[r].body.provider = KeyString("twelve-foot")
        /\ req[r].handler = "pdf-render"
        /\ req[r].response = Reply(400, "Only HTTP(S) URLs are supported.")

\* C7: in a 200 response the source-URL header is the catalog entry's prefix
\* followed by the encoded, re-serialized request URL, it is the URL of the
\* one navigation the request made, and the launch-strategy header is the
\* label of the request's last launch, the one that succeeded.
C7_SuccessHeaders ==
    \A r \in Requests :
        LET rq == req[r]
            gotos == CallsOf(rq, "goto")
            launches == CallsOf(rq, "launch")
            key == KeyOf(rq.handler, rq.body).text
        IN  rq.response.status = 200 =>
                /\ Len(gotos) = 1
                /\ gotos[1].url = rq.response.archiveUrl
                /\ rq.response.archiveUrl =
                        CatalogOf(rq.handler)[key].prefix
                            \o encodeURIComponent(UrlToString(ParseUrl(rq.body.url.chars)))
                /\ Len(rq.rejections) = Len(launches) - 1
                /\ rq.response.strategy = launches[Len(launches)].strategy
                /\ rq.response.strategy \in Range(LaunchOrder)

C7_Witness ==
    \E r \in Requests :
        /\ req[r].response.status = 200
        /\ req[r].response.strategy = "shell-headless"
        /\ req[r].body.url = UrlString(UrlSpace)

\* What a renderer step that failed can have thrown, by the last call made
\* before the cleanup.
ThrownAt(rq) ==
    LET work == SelectSeq(rq.log, LAMBDA c : c.op # "close")
        last == work[Len(work)].op
    IN  CASE last = "render"  -> {BuildUrlMissing(rq.handler)}
          [] last = "launch"  -> {LaunchExhausted(rq.errors)}
          [] last = "newPage" -> NewPageFailures
          [] last = "goto"    -> GotoFailures
          [] last = "delay"   -> DelayFailures
          [] last = "pdf"     -> PdfFailures

\* C8: when the renderer throws (launch exhaustion, page open, navigation,
\* delay or export), the handler answers 500 with {ok: false, message}, the
\* message being that of the exception thrown; every finished request has a
\* response.
C8_RenderFailureIs500 ==
    \A r \in Requests :
        LET rq == req[r]
        IN  /\ rq.pc = "done" => rq.response.status \in {200, 400, 500}
            /\ (rq.pc = "done" /\ rq.failed) =>
                    /\ CallsOf(rq, "render") # <<>>
                    /\ rq.thrown \in ThrownAt(rq)
                    /\ rq.response = Reply(500, rq.thrown.message)

C8_Witness ==
    \E r \in Requests :
        /\ req[r].pc = "done"
        /\ req[r].thrown = Error("Navigation timeout of 45000 ms exceeded")
        /\ req[r].response.status = 500

ProxyOfExample ==
    WaybackPrefix \o <<"h","t","t","p","s","%","3","A","%","2","F","%","2","F",
                       "e","x","a","m","p","l","e",".","c","o","m">>

ProxyOfExampleSlash == ProxyOfExample \o <<"%","2","F">>

\* C9 as written: for url "https://example.com" and the key "wayback" the
\* renderer works on the proxy URL
\* https://web.archive.org/web/*/https%3A%2F%2Fexample.com, and a 200
\* response carries that URL and a non-empty strategy label.
C9_ExampleProxyUrl ==
    \A r \in Requests :
        LET rq == req[r]
        IN  (rq.body.url = UrlString(UrlExample)
                /\ KeyOf(rq.handler, rq.body) = KeyString("wayback")
                /\ CallsOf(rq, "render") # <<>>) =>
                /\ rq.archiveUrl = ProxyOfExample
                /\ rq.response.status = 200 =>
                        /\ rq.response.archiveUrl = ProxyOfExample
                        /\ rq.response.strategy # ""

\* C9, amended: for url "https://example.com" and the Wayback key of the
\* handler addressed (service "wayback" for generate-pdf, provider
\* "internet-archive" for pdf-render) the renderer is invoked and navigates
\* only to https://web.archive.org/web/*/https%3A%2F%2Fexample.com%2F, the
\* URL having been re-serialized to https://example.com/, and a 200 response
\* carries that URL and a non-empty strategy label; provider "wayback" sent
\* to pdf-render is answered 400.
C9_ExampleProxyUrlSlash ==
    \A r \in Requests :
        LET rq == req[r]
            gotos == CallsOf(rq, "goto")
        IN  (rq.body.url = UrlString(UrlExample) /\ rq.pc \notin {"idle", "json"}) =>
                /\ ( \/ rq.handler = "generate-pdf" /\ rq.body.service = KeyString("wayback")
                     \/ rq.handler = "pdf-render"
                            /\ rq.body.provider = KeyString("internet-archive") ) =>
                        /\ CallsOf(rq, "render") # <<>>
                        /\ rq.archiveUrl = ProxyOfExampleSlash
                        /\ \A i \in DOMAIN gotos : gotos[i].url = ProxyOfExampleSlash
                        /\ rq.response.status = 200 =>
                                /\ rq.response.archiveUrl = ProxyOfExampleSlash
                                /\ rq.response.strategy # ""
                /\ (rq.handler = "pdf-render" /\ rq.body.provider = KeyString("wayback")) =>
                        /\ rq.response.status = 400
                        /\ CallsOf(rq, "render") = <<>>

C9_Witness ==
    \E r \in Requests :
        /\ req[r].handler = "generate-pdf"
        /\ req[r].body.url = UrlString(UrlExample)
        /\ req[r].body.service = KeyString("wayback")
        /\ req[r].response.status = 200
        /\ req[r].response.archiveUrl = ProxyOfExampleSlash

\* The prefix the specification fixes for each catalog key.
FixedPrefix(key) ==
    CASE key \in {"archive-today", "archive-ph"}  -> ArchivePhPrefix
      [] key \in {"internet-archive", "wayback"}  -> WaybackPrefix
      [] key \in {"twelve-foot", "twelve-ft"}     -> TwelveFtPrefix

HexDigits == Digits \cup {"A", "B", "C", "D", "E", "F"}

\* Every character is unreserved or part of a %XX escape.
IsPercentEncoded(s) ==
    \A i \in DOMAIN s :
        \/ s[i] \in UriUnreserved /\ s[i] # "%"
        \/ s[i] = "%" /\ i + 2 <= Len(s) /\ s[i + 1] \in HexDigits /\ s[i + 2] \in HexDigits
        \/ i > 1 /\ s[i - 1] = "%" /\ s[i] \in HexDigits
        \/ i > 2 /\ s[i - 2] = "%" /\ s[i] \in HexDigits

EscapedChars == {" ", "#", "%", "/", ":", "?", "é"}

StartsWith(s, p) == Len(s) >= Len(p) /\ SubSeq(s, 1, Len(p)) = p

RECURSIVE PercentDecode(_)
\* The string a percent-encoded string stands for.
PercentDecode(s) ==
    IF s = <<>> THEN <<>>
    ELSE IF Head(s) # "%" THEN <<Head(s)>> \o PercentDecode(Tail(s))
    ELSE LET c == CHOOSE c \in EscapedChars : StartsWith(s, PercentEncodeChar(c))
         IN  <<c>> \o PercentDecode(SubSeq(s, Len(PercentEncodeChar(c)) + 1, Len(s)))

\* C10: for every catalog entry and every input x, the result of buildUrl is
\* the entry's fixed prefix followed by a percent-encoded string that decodes
\* to x, and nothing else; two calls of the same entry on x return the same.
C10_BuildUrlShape ==
    \A i \in DOMAIN built.results :
        LET c == built.results[i]
            prefix == FixedPrefix(c.key)
            suffix == SubSeq(c.out, Len(prefix) + 1, Len(c.out))
        IN  /\ StartsWith(c.out, prefix)
            /\ IsPercentEncoded(suffix)
            /\ PercentDecode(suffix) = built.input
            /\ \A j \in DOMAIN built.results :
                    (built.results[j].catalog = c.catalog /\ built.results[j].key = c.key)
                        => built.results[j].out = c.out

C10_Witness ==
    /\ built.input = <<":", "/", " ">>
    /\ Len(built.results) = 2
    /\ built.results[1].key = "archive-ph"
    /\ built.results[2].key = "archive-ph"
    /\ built.results[2].out = ArchivePhPrefix \o <<"%","3","A","%","2","F","%","2","0">>

(***************************************************************************)
(* The order of calls and settlements within one request                   *)
(***************************************************************************)
\* The positions of the trace entries of one kind.
Positions(rq, event, op) ==
    { i \in DOMAIN rq.trace : rq.trace[i].event = event /\ rq.trace[i].op = op }

Settled(rq, op) == Positions(rq, "resolved", op) \cup Positions(rq, "rejected", op)

\* C11: a request obtains at most one browser handle, and when it obtained
\* one, browser.close has been called on it and that call has settled
\* before the handler produces its response, be it 200 or 500.
C11_ClosedBeforeResponse ==
    \A r \in Requests :
        LET rq == req[r]
        IN  /\ Cardinality(Positions(rq, "resolved", "launch")) <= 1
            /\ (rq.browser # NoBrowser) = (Positions(rq, "resolved", "launch") # {})
            /\ \A k \in Positions(rq, "respond", "handler") :
                    rq.browser # NoBrowser =>
                        /\ rq.response.status \in {200, 500}
                        /\ \E i \in Positions(rq, "call", "close") :
                           \E j \in Settled(rq, "close") :
                                /\ i < j /\ j < k
                                /\ rq.log[Len(rq.log)].op = "close"
                                /\ rq.log[Len(rq.log)].browser = rq.browser

C11_Witness ==
    \E r \in Requests :
        /\ req[r].pc = "done"
        /\ req[r].browser # NoBrowser
        /\ req[r].response.status = 500
        /\ Len(req[r].rejections) = 1

\* The response of a request that runs alone: a function of its handler,
\* its body and the outcomes of its own launches, page steps and close.
SoloResponse(rq) ==
    LET bad == ReadBodyFailure(rq.body)
        verdict == Validate(rq.handler, rq.body)
        key == KeyOf(rq.handler, rq.body).text
        entry == GetProperty(CatalogOf(rq.handler), key)
        n == Len(rq.rejections)
    IN  IF bad # NoError THEN HandlerCatch(bad)
        ELSE IF verdict.status # 0 THEN verdict
        ELSE IF ~entry.hasBuildUrl THEN HandlerCatch(BuildUrlMissing(rq.handler))
        ELSE IF n = Len(LaunchOrder)
        THEN HandlerCatch(LaunchExhausted(
                [i \in 1..n |-> LaunchOrder[i] \o ": " \o FailureText(rq.rejections[i])]))
        ELSE IF Positions(rq, "rejected", "newPage") \cup Positions(rq, "rejected", "goto")
                \cup Positions(rq, "rejected", "delay")
                \cup Positions(rq, "rejected", "pdf") # {}
        THEN HandlerCatch(rq.thrown)
        ELSE [status |-> 200, message |-> "",
              archiveUrl |-> BuildUrl(entry, NormalizeUrl(rq.body.url.chars)),
              strategy |-> LaunchOrder[n + 1], pdf |-> TRUE]

PageOps == {"newPage", "goto", "delay", "pdf", "close"}

\* C12: requests share no mutable state.  Under every interleaving of the
\* requests, and after any earlier request, the response of each (status,
\* archive URL, strategy label, error message) is the one it gets running
\* alone with the same launch, navigation and export outcomes, and every
\* page call and close of a request is made on the handle it obtained itself.
C12_RequestsIndependent ==
    \A r \in Requests :
        LET rq == req[r]
        IN  /\ rq.pc = "done" => rq.response = SoloResponse(rq)
            /\ rq.browser # NoBrowser => rq.browser.owner = r
            /\ \A i \in DOMAIN rq.log :
                    rq.log[i].op \in PageOps =>
                        /\ rq.log[i].browser.owner = r
                        /\ rq.log[i].browser = rq.browser

C12_Witness ==
    /\ req[1].pc = "done" /\ req[2].pc = "done"
    /\ req[1].overlapped \/ req[2].overlapped
    /\ req[1].handler # req[2].handler
    /\ req[1].response.status = 200 /\ req[2].response.status = 500
    /\ req[1].strategy = "shell-headless" /\ req[2].strategy = "legacy-headless"

\* The renaming between the keys of the two handlers.
KeyRenaming ==
    ( "archive-today" :> "archive-ph" ) @@ ( "internet-archive" :> "wayback" )
        @@ ( "twelve-foot" :> "twelve-ft" )

RECURSIVE SelectEvents(_)
\* The settlements of a trace, in order: which awaited call resolved or rejected.
SelectEvents(trace) ==
    IF trace = <<>> THEN <<>>
    ELSE IF trace[1].event \in {"resolved", "rejected"}
         THEN <<trace[1]>> \o SelectEvents(Tail(trace))
         ELSE SelectEvents(Tail(trace))

\* The browser calls of a request, without the identity of the handle.
BrowserCalls(rq) ==
    LET calls == SelectSeq(rq.log, LAMBDA c : c.op # "render")
    IN  [i \in DOMAIN calls |->
            [op |-> calls[i].op, strategy |-> calls[i].strategy, url |-> calls[i].url,
             options |-> calls[i].options, attempt |-> calls[i].browser.attempt]]

\* The same URL sent to pdf-render (p) and generate-pdf (g) with
\* corresponding keys, and the same outcomes so far.
Corresponding(p, g) ==
    /\ p.handler = "pdf-render" /\ g.handler = "generate-pdf"
    /\ p.body.kind = "object" /\ g.body.kind = "object"
    /\ p.body.url = g.body.url
    /\ p.body.provider.type = "string" /\ g.body.service.type = "string"
    /\ p.body.provider.text \in DOMAIN KeyRenaming
    /\ KeyRenaming[p.body.provider.text] = g.body.service.text
    /\ SelectEvents(p.trace) = SelectEvents(g.trace)
    /\ p.rejections = g.rejections
    /\ p.closeRejected = g.closeRejected

PageSteps == <<"newPage", "goto", "delay", "pdf">>

\* The page steps of the try block that rejected (at most one does).
RejectedSteps(rq) ==
    { i \in DOMAIN PageSteps : Positions(rq, "rejected", PageSteps[i]) # {} }

\* C14: a rejection of browser.close never changes the outcome of a render.
\* When page open, navigation, delay and export succeeded the response is
\* still the 200 with the PDF, and when one of them threw, the error that
\* reaches the handler is the one that step threw, not the close error.
C14_CloseFailureSwallowed ==
    \A r \in Requests :
        LET rq == req[r]
        IN  (rq.pc = "done" /\ Positions(rq, "rejected", "close") # {}) =>
                /\ rq.closeRejected
                /\ RejectedSteps(rq) = {} =>
                        /\ Positions(rq, "resolved", "pdf") # {}
                        /\ rq.response.status = 200
                        /\ rq.response.pdf
                        /\ rq.response.strategy = rq.strategy
                /\ RejectedSteps(rq) # {} =>
                        /\ rq.thrown \in ThrownAt(rq)
                        /\ rq.response = HandlerCatch(rq.thrown)
                        /\ rq.response.status = 500

C14_Witness ==
    \E r \in Requests :
        /\ req[r].pc = "done"
        /\ Positions(req[r], "rejected", "close") # {}
        /\ Positions(req[r], "rejected", "pdf") # {}
        /\ req[r].response.status = 500

\* How many times the request called puppeteer.launch with this label.
Tries(rq, label) ==
    Len(SelectSeq(rq.log, LAMBDA c : c.op = "launch" /\ c.strategy = label))

LaunchRejections(rq) == Cardinality(Positions(rq, "rejected", "launch"))

\* C15 as stated: every request whose launch sequence ran has tried each of
\* the three launch configurations exactly once.
C15_EachTriedExactlyOnce ==
    \A r \in Requests :
        (req[r].pc = "done" /\ CallsOf(req[r], "launch") # <<>>) =>
            \A i \in DOMAIN LaunchOrder : Tries(req[r], LaunchOrder[i]) = 1

\* C15, amended: within one request no launch configuration is tried more
\* than once, and configuration i is tried (once) exactly when the request
\* reached the launch sequence and the i-1 configurations before it failed;
\* the configurations after a successful launch are not tried at all.
C15_EachTriedAtMostOnce ==
    \A r \in Requests :
        LET rq == req[r]
            started == CallsOf(rq, "launch") # <<>>
        IN  /\ \A i \in DOMAIN rq.log :
                    rq.log[i].op = "launch" =>
                        \E k \in DOMAIN LaunchOrder : rq.log[i].strategy = LaunchOrder[k]
            /\ \A i \in DOMAIN LaunchOrder :
                    /\ Tries(rq, LaunchOrder[i]) <= 1
                    /\ (Tries(rq, LaunchOrder[i]) = 1)
                            = (started /\ LaunchRejections(rq) >= i - 1)
            /\ started = (Positions(rq, "call", "render") # {}
                            /\ rq.response.message
                                    # BuildUrlMissing(rq.handler).message)

C15_Witness ==
    \E r \in Requests :
        /\ req[r].pc = "done"
        /\ req[r].response.status = 200
        /\ Tries(req[r], "default-new-headless") = 1
        /\ Tries(req[r], "shell-headless") = 1
        /\ Tries(req[r], "legacy-headless") = 0

LaunchSuccesses(rq) == Cardinality(Positions(rq, "resolved", "launch"))

\* C16: once the launch sequence of a request is over (it ran and no launch
\* is in flight), either exactly one launch succeeded, after zero, one or
\* two failures, and launchBrowser returned its handle, or all three
\* launches failed and launchBrowser threw; nothing else is reachable.
C16_OneSucceedsOrAllFail ==
    \A r \in Requests :
        LET rq == req[r]
            s == LaunchSuccesses(rq)
            f == LaunchRejections(rq)
        IN  (CallsOf(rq, "launch") # <<>> /\ rq.pc # "launch") =>
                \/ /\ s = 1 /\ f < Len(LaunchOrder)
                   /\ Len(CallsOf(rq, "launch")) = f + 1
                   /\ \A i \in Positions(rq, "rejected", "launch") :
                      \A j \in Positions(rq, "resolved", "launch") : i < j
                   /\ rq.browser # NoBrowser
                   /\ rq.strategy = LaunchOrder[f + 1]
                   /\ rq.thrown # LaunchExhausted(rq.errors)
                \/ /\ s = 0 /\ f = Len(LaunchOrder)
                   /\ Len(CallsOf(rq, "launch")) = f
                   /\ rq.browser = NoBrowser
                   /\ rq.failed /\ rq.thrown = LaunchExhausted(rq.errors)
                   /\ rq.pc = "done"

C16_Witness ==
    \E r \in Requests :
        /\ req[r].pc = "goto"
        /\ LaunchSuccesses(req[r]) = 1
        /\ LaunchRejections(req[r]) = 2

\* C17: every launch attempt of every strategy of a request is made with
\* executablePath equal to the value of PUPPETEER_EXECUTABLE_PATH (undefined
\* when the variable is unset); the value is the same for all the attempts
\* of the request and no strategy's own options replace it.
C17_ExecutablePathFromEnv ==
    \A r \in Requests :
        LET launches == CallsOf(req[r], "launch")
        IN  /\ \A i \in DOMAIN launches : launches[i].options.executablePath = env
            /\ \A i, j \in DOMAIN launches :
                    launches[i].options.executablePath = launches[j].options.executablePath
            /\ \A i \in DOMAIN req[r].log :
                    req[r].log[i].op # "launch" => req[r].log[i].options = NoOptions

C17_Witness ==
    \E r \in Requests :
        /\ env # EnvUnset
        /\ Len(CallsOf(req[r], "launch")) = 3
        /\ CallsOf(req[r], "launch")[3].options.headless = "true"

RECURSIVE SelectCalls(_, _)
\* The operations called, in order, among those of `ops`.
SelectCalls(trace, ops) ==
    IF trace = <<>> THEN <<>>
    ELSE IF trace[1].event = "call" /\ trace[1].op \in ops
         THEN <<trace[1].op>> \o SelectCalls(Tail(trace), ops)
         ELSE SelectCalls(Tail(trace), ops)

\* The step whose success each page step waits for.
StepBefore ==
    ( "newPage" :> "launch" ) @@ ( "goto" :> "newPage" ) @@ ( "delay" :> "goto" )
        @@ ( "pdf" :> "delay" )

\* C18: within one request the renderer's steps happen in the order open
\* page, navigate, grace delay, export PDF, each called when the one before
\* has completed successfully; the export is attempted only after navigation
\* and the delay succeeded, and when navigation fails neither the delay nor
\* the export is attempted and the render fails with the navigation error.
C18_StepsInOrder ==
    \A r \in Requests :
        LET rq == req[r]
            steps == SelectCalls(rq.trace, DOMAIN StepBefore)
        IN  /\ Len(steps) <= Len(PageSteps)
            /\ steps = SubSeq(PageSteps, 1, Len(steps))
            /\ \A i \in DOMAIN rq.trace :
                    (rq.trace[i].event = "call" /\ rq.trace[i].op \in DOMAIN StepBefore) =>
                        /\ i > 1
                        /\ rq.trace[i - 1] =
                                [event |-> "resolved", op |-> StepBefore[rq.trace[i].op]]
            /\ Positions(rq, "call", "pdf") # {} =>
                    /\ Positions(rq, "resolved", "goto") # {}
                    /\ Positions(rq, "resolved", "delay") # {}
            /\ Positions(rq, "rejected", "goto") # {} =>
                    /\ Positions(rq, "call", "delay") = {}
                    /\ Positions(rq, "call", "pdf") = {}
                    /\ rq.failed /\ rq.thrown \in GotoFailures
                    /\ rq.pc = "done" => rq.response = HandlerCatch(rq.thrown)

C18_Witness ==
    \E r \in Requests :
        /\ req[r].pc = "done"
        /\ Positions(req[r], "rejected", "goto") # {}
        /\ req[r].response.status = 500
        /\ req[r].response.message = "Navigation timeout of 45000 ms exceeded"

\* The launches of a request that were called and have not settled yet.
LaunchesInFlight(rq, upto) ==
    Cardinality({ i \in Positions(rq, "call", "launch") : i <= upto })
        - Cardinality({ i \in Settled(rq, "launch") : i <= upto })

\* C19: within one request at most one launch attempt is in flight at any
\* time, the attempt for configuration k+1 starting only when the attempt
\* for configuration k has failed, and at most one page is opened.
C19_OneLaunchInFlight ==
    \A r \in Requests :
        LET rq == req[r]
            launches == CallsOf(rq, "launch")
        IN  /\ \A i \in DOMAIN rq.trace : LaunchesInFlight(rq, i) \in {0, 1}
            /\ (rq.pc = "launch") = (LaunchesInFlight(rq, Len(rq.trace)) = 1)
            /\ \A i \in Positions(rq, "call", "launch") :
                    \/ rq.trace[i - 1] = [event |-> "rejected", op |-> "launch"]
                    \/ Positions(rq, "call", "launch") \cap 1..(i - 1) = {}
            /\ \A k \in DOMAIN launches :
                    k > 1 => /\ launches[k - 1].strategy = LaunchOrder[k - 1]
                             /\ launches[k].strategy = LaunchOrder[k]
                             /\ Len(rq.rejections) >= k - 1
            /\ Len(CallsOf(rq, "newPage")) <= 1

C19_Witness ==
    \E r \in Requests :
        /\ req[r].pc = "launch"
        /\ Len(CallsOf(req[r], "launch")) = 3
        /\ LaunchesInFlight(req[r], Len(req[r].trace)) = 1

\* C20: no failure is retried at the request level.  Per request the
\* handler invokes the renderer at most once, the launch sequence runs at
\* most once (at most three launches, one per configuration), page open,
\* navigation, delay, export and close are each attempted at most once, and
\* one response is produced; a failure at any step ends the request with
\* its 500, the only repetition being the move to the next configuration.
C20_NoRequestLevelRetry ==
    \A r \in Requests :
        LET rq == req[r]
        IN  /\ Len(CallsOf(rq, "render")) <= 1
            /\ Len(CallsOf(rq, "launch")) <= Len(LaunchOrder)
            /\ \A i \in DOMAIN LaunchOrder : Tries(rq, LaunchOrder[i]) <= 1
            /\ \A op \in PageOps : Len(CallsOf(rq, op)) <= 1
            /\ Cardinality(Positions(rq, "respond", "handler")) <= 1
            /\ \A op \in PageOps \ {"close"} :
                    Positions(rq, "rejected", op) # {} =>
                        \A i \in Positions(rq, "call", "close") :
                            /\ rq.trace[i - 1] = [event |-> "rejected", op |-> op]
                            /\ rq.pc = "done" => rq.response.status = 500

C20_Witness ==
    \E r \in Requests :
        /\ req[r].pc = "done"
        /\ Positions(req[r], "rejected", "goto") # {}
        /\ Len(CallsOf(req[r], "goto")) = 1
        /\ Len(CallsOf(req[r], "launch")) = 2
        /\ req[r].response.message = "net::ERR_NAME_NOT_RESOLVED"

\* C21: provided every launch, page-open, navigation, delay, export and
\* close call eventually settles, every request that arrived eventually
\* produces its response, exactly one, after at most three launch attempts,
\* and nothing happens in the request after the response.
C21_EventuallyOneResponse ==
    /\ \A r \in Requests : (req[r].pc # "idle") ~> (req[r].pc = "done")
    /\ [](\A r \in Requests :
            /\ Cardinality(Positions(req[r], "respond", "handler"))
                    = (IF req[r].pc = "done" THEN 1 ELSE 0)
            /\ Len(CallsOf(req[r], "launch")) <= 3
            /\ req[r].pc = "done" => req[r].response # NoResponse)
    /\ [][\A r \in Requests : req[r].pc = "done" => req'[r] = req[r]]_vars

C21_Witness ==
    \E r \in Requests :
        /\ req[r].pc = "done"
        /\ Cardinality(Positions(req[r], "respond", "handler")) = 1
        /\ Len(CallsOf(req[r], "launch")) = 3
        /\ Positions(req[r], "call", "close") # {}

\* Every page step of the request was called and resolved.
AllStepsResolved(rq) ==
    \A i \in DOMAIN PageSteps : Positions(rq, "resolved", PageSteps[i]) # {}

\* C22: the handler answers 200 if and only if the body was read, the URL
\* and the provider passed the handler's checks, one launch succeeded and
\* page open, navigation, the grace delay and the export all succeeded;
\* every other request is answered 400 or 500, and a request answered 400
\* never reached the renderer: no launch was attempted for it.
C22_OkIffAllSucceeded ==
    \A r \in Requests :
        LET rq == req[r]
        IN  rq.pc = "done" =>
                /\ rq.response.status \in {200, 400, 500}
                /\ (rq.response.status = 200) =
                        ( /\ ReadBodyFailure(rq.body) = NoError
                          /\ Validate(rq.handler, rq.body).status = 0
                          /\ LaunchSuccesses(rq) = 1
                          /\ AllStepsResolved(rq) )
                /\ rq.response.status = 200 => rq.response.pdf
                /\ rq.response.status = 400 =>
                        /\ CallsOf(rq, "launch") = <<>>
                        /\ rq.log = <<>>
                        /\ ~rq.response.pdf

C22_Witness ==
    \E r \in Requests :
        /\ req[r].pc = "done"
        /\ req[r].response.status = 200
        /\ LaunchRejections(req[r]) = 1
        /\ req[r].handler = "generate-pdf"

\* C23: the handler applies its checks in the order URL presence, key
\* membership, URL parse and scheme, and the 400 carries the message of the
\* first check that fails: a missing URL gets the URL message whatever the
\* key, a faulty URL (ftp, say) with an unknown key gets the key message, and
\* with a known key the parse message or the HTTP(S) message.
C23_FirstFailingCheck ==
    \A r \in Requests :
        LET rq == req[r]
            unknown == UnknownKey(rq.handler, rq.body)
        IN  (rq.pc = "done" /\ rq.body.kind = "object") =>
                /\ MissingUrl(rq.body) =>
                        rq.response = Reply(400, "A valid URL is required.")
                /\ (NonHttpScheme(rq.body) /\ unknown) =>
                        rq.response = Reply(400, KeyRequiredMessage(rq.handler))
                /\ (~MissingUrl(rq.body) /\ ~unknown /\ ~ParseUrl(rq.body.url.chars).ok) =>
                        rq.response = Reply(400, "Invalid URL")
                /\ (~MissingUrl(rq.body) /\ ~unknown /\ NonHttpScheme(rq.body)) =>
                        rq.response = Reply(400, "Only HTTP(S) URLs are supported.")

\* C24: a request whose body is not JSON, or is the JSON value null, is
\* answered 500, not 400, with the message of the parse error or of the
\* destructuring TypeError, and neither the renderer nor a launch is
\* reached for it.
C24_UnreadableBodyIs500 ==
    \A r \in Requests :
        LET rq == req[r]
        IN  rq.body.kind \in {"malformed", "null"} =>
                /\ rq.log = <<>>
                /\ rq.pc \in {"json", "done"}
                /\ rq.pc = "done" =>
                        /\ rq.response.status = 500
                        /\ rq.response.message =
                                (IF rq.body.kind = "malformed"
                                 THEN "Unexpected end of JSON input"
                                 ELSE "Cannot destructure property 'url' of "
                                      \o "'(intermediate value)' as it is null.")
                        /\ Positions(rq, "rejected", "json") # {}

C24_Witness ==
    \E r \in Requests :
        /\ req[r].pc = "done"
        /\ req[r].body.kind = "null"
        /\ req[r].response.status = 500

\* C25: when all three launches of a request have failed, no page is
\* opened, no navigation, delay or export is attempted and browser.close is
\* never called; the request is over at once, answered 500 with the
\* aggregate launch-failure message.
C25_LaunchExhaustedNoCleanup ==
    \A r \in Requests :
        LET rq == req[r]
        IN  LaunchRejections(rq) = Len(LaunchOrder) =>
                /\ \A op \in PageOps : CallsOf(rq, op) = <<>>
                /\ rq.pc = "done"
                /\ rq.response.status = 500
                /\ rq.response.message =
                        "Failed to launch Chromium with Puppeteer. Tried strategies: "
                        \o Join([i \in DOMAIN LaunchOrder |->
                                    LaunchOrder[i] \o ": " \o FailureText(rq.rejections[i])],
                                "; ")
                /\ rq.trace[Len(rq.trace)] = [event |-> "respond", op |-> "handler"]
                /\ rq.trace[Len(rq.trace) - 1] = [event |-> "rejected", op |-> "launch"]

C25_Witness ==
    \E r \in Requests :
        /\ LaunchRejections(req[r]) = 3
        /\ req[r].response.status = 500
        /\ ~req[r].rejections[3].isError
        /\ req[r].handler = "generate-pdf"

\* The ticks whose callback called attemptRecovery and got past its limit
\* check, and the events a tick's callback emitted.
Attempts == { t \in Ticks : mon.ticks[t].attempt > 0 }
EmittedBy(t, event) == SelectSeq(mon.ticks[t].emitted, LAMBDA e : e.event = event)

\* C26: restartCount never exceeds maxRestarts.  Each attemptRecovery that
\* finds restartCount < maxRestarts adds exactly one to it (so the attempts
\* made are numbered 1, 2, ... restartCount, none above maxRestarts), and
\* one that finds restartCount >= maxRestarts emits 'max-restarts-reached',
\* is over at once, adds nothing, and calls neither close nor launch.
C26_RestartCountBounded ==
    /\ mon.restartCount <= mon.options.maxRestarts
    /\ mon.restartCount = Cardinality(Attempts)
    /\ { mon.ticks[t].attempt : t \in Attempts } = 1..mon.restartCount
    /\ \A t \in Ticks :
          /\ mon.ticks[t].recovery \in {"started", "succeeded", "failed"} <=> t \in Attempts
          /\ mon.ticks[t].recovery = "refused" =>
                /\ mon.restartCount = mon.options.maxRestarts
                /\ Len(EmittedBy(t, "max-restarts-reached")) = 1
                /\ mon.ticks[t].pc = "done"
                /\ mon.ticks[t].calls = <<"healthCheck">>

C26_Witness ==
    \E t, u \in Ticks :
        /\ mon.ticks[t].recovery = "refused"
        /\ mon.ticks[u].recovery = "failed"
        /\ mon.restartCount = 1
        /\ mon.options.maxRestarts = 1

\* The handler types in the order the claim takes them to be declared, and
\* for each message the types whose pattern matches it.
DeclarationOrder ==
    << "MISSING_LIBRARY", "BROWSER_CRASH", "TIMEOUT", "NAVIGATION_FAILED", "OUT_OF_MEMORY",
       "SHM_ISSUE", "PAGE_CRASH", "CONNECTION_REFUSED", "SANDBOX_ERROR" >>
MatchingTypes ==
    [error \in ErrorMessages |->
        { ErrorHandlers[i].type : i \in { j \in DOMAIN ErrorHandlers :
            PatternTest(ErrorHandlers[j].pattern, ErrorMessageOf(error)) } }]

\* C27: a finished handleError ran exactly one handler, the first in
\* declaration order whose pattern matches the message (TIMEOUT when both
\* TIMEOUT and NAVIGATION_FAILED match), emitted exactly one
\* 'error-detected' carrying that type and the result it returned; when no
\* pattern matches it ran none, emitted nothing and returned
\* {canRecover: false, action: 'MANUAL_INTERVENTION'}.
C27_FirstMatchingHandler ==
    \A h \in Errors :
        LET run == mon.errs[h]
            matching == MatchingTypes[run.error]
            first == CHOOSE i \in DOMAIN DeclarationOrder :
                        /\ DeclarationOrder[i] \in matching
                        /\ \A j \in 1..(i - 1) : DeclarationOrder[j] \notin matching
        IN  run.pc = "done" =>
                IF matching = {}
                THEN /\ run.handlersRun = 0
                     /\ run.emitted = <<>>
                     /\ run.result = [canRecover |-> FALSE, action |-> "MANUAL_INTERVENTION"]
                ELSE /\ run.handlersRun = 1
                     /\ run.type = DeclarationOrder[first]
                     /\ {"TIMEOUT", "NAVIGATION_FAILED"} \subseteq matching => run.type = "TIMEOUT"
                     /\ Len(run.emitted) = 1
                     /\ run.emitted[1].event = "error-detected"
                     /\ run.emitted[1].type = run.type
                     /\ run.emitted[1].result = run.result
                     /\ run.type # "BROWSER_CRASH" => run.result = HandlerResult(run.type, mon)

C27_Witness ==
    \E h \in Errors :
        /\ mon.errs[h].pc = "done"
        /\ {"TIMEOUT", "NAVIGATION_FAILED"} \subseteq MatchingTypes[mon.errs[h].error]
        /\ mon.errs[h].type = "TIMEOUT"
        /\ Len(mon.errs[h].emitted) = 1

\* In this step the callback of tick t gets the result of its health check.
GetsResult(t) == mon.ticks[t].pc = "check" /\ mon'.ticks[t].pc # "check"

\* The monitor's own fields, the runs of its callbacks left aside.
MonitorFields(m) ==
    <<m.options, m.browserInstance, m.restartCount, m.lastError, m.isHealthy,
      m.healthCheckTimer>>

\* C28: a tick calls attemptRecovery only in the step where its check
\* reports unhealthy while isHealthy is true and enableAutoRecovery is set;
\* it emits 'browser-recovered' only in the step where its check reports
\* healthy while isHealthy is false; and a tick whose result agrees with
\* isHealthy ends at once, leaves every field of the monitor as it was and
\* emits nothing.
C28_TickActsOnDisagreement ==
    [][\A t \in Ticks :
          LET before == mon.ticks[t]
              after == mon'.ticks[t]
          IN  /\ (before.recovery = "none" /\ after.recovery # "none") =>
                    /\ GetsResult(t)
                    /\ after.healthy = "unhealthy"
                    /\ mon.isHealthy
                    /\ mon.options.enableAutoRecovery
              /\ Len(EmittedBy(t, "browser-recovered")') > Len(EmittedBy(t, "browser-recovered")) =>
                    /\ GetsResult(t)
                    /\ after.healthy = "healthy"
                    /\ ~mon.isHealthy
              /\ (/\ GetsResult(t)
                  /\ \/ after.healthy = "healthy" /\ mon.isHealthy
                     \/ after.healthy = "unhealthy" /\ ~mon.isHealthy) =>
                    /\ MonitorFields(mon') = MonitorFields(mon)
                    /\ mon'.errs = mon.errs
                    /\ \A u \in Ticks \ {t} : mon'.ticks[u] = mon.ticks[u]
                    /\ after.pc = "done"
                    /\ after.emitted = <<>>
                    /\ after.calls = <<"healthCheck">>
                    /\ after.recovery = "none"
    ]_vars

C28_Witness ==
    \E t, u, w \in Ticks :
        /\ mon.ticks[t].healthy = "unhealthy" /\ mon.ticks[t].sawHealthy
        /\ mon.ticks[t].recovery = "failed"
        /\ mon.ticks[u].healthy = "unhealthy" /\ ~mon.ticks[u].sawHealthy
        /\ mon.ticks[u].pc = "done" /\ mon.ticks[u].emitted = <<>>
        /\ mon.ticks[w].healthy = "healthy" /\ ~mon.ticks[w].sawHealthy
        /\ Len(EmittedBy(w, "browser-recovered")) = 1

\* In this step the launch of tick t's recovery attempt throws.
RecoveryFails(t) == mon.ticks[t].recovery = "started" /\ mon'.ticks[t].recovery = "failed"

\* In this step the callback of tick t gets past the limit check of
\* attemptRecovery.
RecoveryStarts(t) == mon.ticks[t].recovery = "none" /\ mon'.ticks[t].recovery = "started"

\* C29: a recovery attempt that fails leaves isHealthy false, and isHealthy
\* then stays false until a health check reports healthy or a launch
\* succeeds; an attempt starts only from isHealthy true, so after a failure
\* none starts before isHealthy has become true again, whatever
\* restartCount is.
C29_FailedRecoveryStaysUnhealthy ==
    [][/\ \A t \in Ticks : RecoveryFails(t) => ~mon'.isHealthy
       /\ \A t \in Ticks : RecoveryStarts(t) => mon.isHealthy /\ ~mon'.isHealthy
       /\ (~mon.isHealthy /\ mon'.isHealthy) =>
              \E t \in Ticks :
                  \/ GetsResult(t) /\ mon'.ticks[t].healthy = "healthy"
                  \/ mon.ticks[t].recovery = "started" /\ mon'.ticks[t].recovery = "succeeded"
    ]_vars

\* The ticks whose recovery attempt is between its first await and the
\* end of its launch.
RecoveriesInProgress == { t \in Ticks : mon.ticks[t].pc \in {"close", "delay", "launch"} }

\* C30: at most one recovery attempt is in progress at any time.
C30_OneRecoveryInProgress == Cardinality(RecoveriesInProgress) <= 1

\* C31: while healthCheckTimer is null (after stopHealthMonitoring and
\* until the next startHealthMonitoring) no callback of the interval starts
\* a recovery attempt and none changes isHealthy, not even one whose health
\* check was in flight when monitoring was stopped.
C31_StoppedMonitorIsQuiet ==
    [][(mon.healthCheckTimer = "null" /\ mon'.healthCheckTimer = "null") =>
          \A t \in Ticks :
              /\ ~RecoveryStarts(t)
              /\ GetsResult(t) => mon'.isHealthy = mon.isHealthy
    ]_vars

\* The ticks whose recovery attempt called close on the browser or launch
\* on the browser manager.
ClosedOrLaunched ==
    { t \in Ticks : \E i \in DOMAIN mon.ticks[t].calls :
                        mon.ticks[t].calls[i] \in {"close", "launch"} }

\* C32: restartCount never decreases, and it changes only in the step
\* where attemptRecovery gets past its limit check (by one): a successful
\* recovery, 'browser-recovered', handleError, startHealthMonitoring and
\* stopHealthMonitoring leave it as it is.  So at any time at most
\* maxRestarts attempts have closed or launched a browser.
C32_RestartCountMonotonic ==
    /\ [](Cardinality(ClosedOrLaunched) <= mon.options.maxRestarts)
    /\ [][/\ mon'.restartCount >= mon.restartCount
          /\ mon'.restartCount # mon.restartCount =>
                /\ mon'.restartCount = mon.restartCount + 1
                /\ \E t \in Ticks : RecoveryStarts(t)
       ]_vars

C32_Witness ==
    \E t, u, w \in Ticks :
        /\ mon.ticks[t].recovery = "succeeded"
        /\ Len(EmittedBy(u, "browser-recovered")) = 1
        /\ mon.ticks[w].recovery = "refused"
        /\ mon.errs[1].pc = "done"
        /\ mon.browserInstance = "browser" /\ mon.healthCheckTimer = "null"
        /\ mon.restartCount = 1 /\ mon.options.maxRestarts = 1
        /\ ClosedOrLaunched = {t}

\* C33: every submit sets status to 'loading' and clears errorMessage;
\* status is 'loading' exactly while handleSubmit is running, and when it
\* is over status is 'success' or 'error'; once the response is there and
\* its body has been read, status leaves 'loading'; 'success' is reached
\* only with a response that was OK; and while status is 'loading' the URL
\* input, the service selector and the submit button are rendered disabled.
C33_SubmitEndsInSuccessOrError ==
    /\ [][form'.submits # form.submits =>
              /\ form'.status = "loading"
              /\ form'.errorMessage = ""
         ]_vars
    /\ [](/\ form.status = "loading" <=> form.pc # "idle"
          /\ (form.pc = "idle" /\ form.submits > 0) => form.status \in {"success", "error"}
          /\ form.status = "success" => form.response.settled /\ form.response.ok
          /\ form.status = "error" => form.errorMessage # ""
          /\ form.status = "loading" =>
                /\ form.rendered.urlDisabled
                /\ form.rendered.serviceDisabled
                /\ form.rendered.submitDisabled)
    /\ ((form.status = "loading" /\ form.response.settled)
            ~> form.status \in {"success", "error"})

C33_Witness ==
    /\ form.submits = 2
    /\ form.status = "error"
    /\ form.errorMessage = "An archive service is required."
    /\ form.downloads = <<"Wayback Machine">>
    /\ ~form.rendered.submitDisabled

====
